---- MODULE Spec2Model ----
(***************************************************************************)
(* A model of openpol's asset codecs: the image13h module                  *)
(* (src/src/image13h.rs) with the Image13h raster, its load, save, empty,  *)
(* filled_with_color, subimage, blit and fill, the Rect helper and         *)
(* indices_to_rgb; and the containers built on it, pal.dat                 *)
(* (src/src/paldat.rs), sound.dat (src/src/sounddat.rs), font.dat          *)
(* (src/src/fontdat.rs) and graf.dat (src/src/grafdat.rs); and of the     *)
(* event loop of the game binary (src/src/bin/openpol.rs) with its Intro   *)
(* and MainMenu behaviors.                                                 *)
(*                                                                         *)
(* Conventions.  A Rust Option is a sequence of length 0 (None) or 1       *)
(* (Some(x)).  A Vec<u8> or byte slice is a sequence of naturals below     *)
(* 256; Rust's 0-based index i is TLA+ index i + 1.  A call that can panic *)
(* returns a record with a field "panicked"; what it had written before    *)
(* the panic is kept in the record, because an unwinding panic leaves the  *)
(* receiver as the completed iterations left it.                           *)
(***************************************************************************)
EXTENDS Integers, Sequences, FiniteSets, TLC

VARIABLES img, other, buf, last, rgb, trip, pal, snd, font, graf, game

vars == <<img, other, buf, last, rgb, trip, pal, snd, font, graf, game>>

----------------------------------------------------------------------------
(* Bounds of the model.                                                    *)

\* Largest width, height, rect offset and rect extent the small cases use.
MaxDim == 3

\* Longest index sequence handed to indices_to_rgb.
MaxIndices == 3

\* Number of whole colors in the longest palette handed to indices_to_rgb.
MaxPaletteColors == 3

----------------------------------------------------------------------------
(* Program constants.                                                      *)

\* image13h.rs:32
HEADER_SIZE == 6

\* The number of values of a u16: `*dim as u16` in save keeps dim modulo this.
U16_RANGE == 65536

\* The number of values of a u8: one byte of to_le_bytes / from_le_bytes.
U8_RANGE == 256

\* paldat.rs: PALETTE_SIZE_IN_BYTES, 256 colors of 3 bytes.
PALETTE_SIZE_IN_BYTES == 768

----------------------------------------------------------------------------
(* Option, slices and readers.                                             *)

None == <<>>

Some(x) == <<x>>

is_some(o) == Len(o) = 1

is_none(o) == Len(o) = 0

unwrap(o) == o[1]

\* A range index that refuses a range ending at the end of the slice.
slice_ok_exclusive(len, a, b) == a <= b /\ b < len

\* A Rust range index s[a..b] is accepted when a <= b and b <= s.len();
\* otherwise the indexing panics.
slice_ok(len, a, b) == a <= b /\ b <= len

\* s[a..b], 0-based and end-exclusive, for an accepted range.
slice(s, a, b) == SubSeq(s, a + 1, b)

\* vec![value; n]
vec_of(value, n) == [i \in 1..n |-> value]

\* reader.read_exact(&mut buffer) on a byte slice reader, buffer.len() = n:
\* fails when fewer than n bytes are left, else yields them and advances.
read_exact(reader, n) ==
    IF Len(reader) < n
    THEN [ok |-> FALSE, bytes |-> <<>>, rest |-> reader]
    ELSE [ok |-> TRUE, bytes |-> SubSeq(reader, 1, n),
          rest |-> SubSeq(reader, n + 1, Len(reader))]

\* u16::from_le_bytes(buffer) as usize
from_le_bytes(buffer) == buffer[1] + U8_RANGE * buffer[2]

\* A save that writes the dimension's high byte first.
to_be_bytes_u16(dim) ==
    LET v == dim % U16_RANGE IN <<v \div U8_RANGE, v % U8_RANGE>>

\* (dim as u16).to_le_bytes(): the cast truncates to 16 bits.
to_le_bytes_u16(dim) ==
    LET v == dim % U16_RANGE IN <<v % U8_RANGE, v \div U8_RANGE>>

----------------------------------------------------------------------------
(* Rect.                                                                   *)

Rect(l, t, w, h) == [left |-> l, top |-> t, width |-> w, height |-> h]

\* Rect::from_ranges(x0..x1, y0..y1), for x0 <= x1 and y0 <= y1.
from_ranges(x0, x1, y0, y1) == Rect(x0, y0, x1 - x0, y1 - y0)

beyond_right(rect) == rect.left + rect.width

beyond_bottom(rect) == rect.top + rect.height

----------------------------------------------------------------------------
(* Image13h.                                                               *)

Image13h(w, h, d) == [width |-> w, height |-> h, data |-> d]

\* Image13h::filled_with_color
filled_with_color(width, height, color) ==
    Image13h(width, height, vec_of(color, width * height))

\* Image13h::empty
empty(width, height) == filled_with_color(width, height, 0)

\* A load that refuses width 0 and forgets height 0.
dimensions_invalid_width_only(width, height) == width = 0

\* load's test `width == 0 || height == 0`.
dimensions_invalid(width, height) == width = 0 \/ height = 0

\* load's test of the two bytes after the dimensions.
marker_valid(buffer) == buffer = <<1, 0>>

\* Image13h::load
Image13h_load(reader) ==
    LET r1 == read_exact(reader, 2) IN
    IF ~r1.ok THEN None ELSE
    LET width == from_le_bytes(r1.bytes)
        r2 == read_exact(r1.rest, 2) IN
    IF ~r2.ok THEN None ELSE
    LET height == from_le_bytes(r2.bytes) IN
    IF dimensions_invalid(width, height) THEN None ELSE
    LET r3 == read_exact(r2.rest, 2) IN
    IF ~r3.ok THEN None ELSE
    IF ~marker_valid(r3.bytes) THEN None ELSE
    LET r4 == read_exact(r3.rest, width * height) IN
    IF ~r4.ok THEN None ELSE
    Some(Image13h(width, height, r4.bytes))

\* Image13h::save, into an empty writer.
Image13h_save(self) ==
    to_le_bytes_u16(self.width) \o to_le_bytes_u16(self.height)
        \o <<1, 0>> \o self.data

\* A fill that resizes to the width instead of the old length.
fill_to_width(self, color) ==
    [self EXCEPT !.data = vec_of(color, self.width)]

\* Image13h::fill: clear, then resize to the old length with `color`.
fill(self, color) ==
    LET len == Len(self.data) IN
    [self EXCEPT !.data = vec_of(color, len)]

\* Image13h::line: the assertion, then the row's range of `data`.
line_range(self, l) ==
    [ok |-> l < self.height
            /\ slice_ok(Len(self.data), l * self.width, (l + 1) * self.width),
     from |-> l * self.width, to |-> (l + 1) * self.width,
     len |-> Len(self.data)]

\* Image13h::mut_line: no assertion, only the range index into `data`.
mut_line_range(self, l) ==
    [ok |-> slice_ok(Len(self.data), l * self.width, (l + 1) * self.width),
     from |-> l * self.width, to |-> (l + 1) * self.width,
     len |-> Len(self.data)]

\* line(l)[rect.left..rect.beyond_right()]: the range index is checked
\* against the row's slice, not against the whole of `data`.
row_range_ok(row, rect) ==
    slice_ok(row.to - row.from, rect.left, beyond_right(rect))

\* A subimage that reads every row from its first column.
subimage_src_index_no_left(row, rect) == row.from

\* subimage reads self.line(src_line)[rect.left..]: the 0-based index into
\* self.data of the first pixel it reads from the row.
subimage_src_index(row, rect) == row.from + rect.left

\* The line of `self` that iteration `dst_line` of subimage's loop reads.
subimage_src_line(rect, dst_line) == rect.top + dst_line

\* A blit that writes every row from its first column.
blit_dst_index_no_left(row, rect) == row.from

\* blit writes self.mut_line(dst_line)[rect.left..]: the 0-based index into
\* self.data of the first pixel it writes in the row.
blit_dst_index(row, rect) == row.from + rect.left

\* A blit that writes the lines 0, 1, ... instead of those of the rect.
blit_dst_line_no_top(rect, src_line) == src_line

\* The line of `self` that iteration `src_line` of blit's loop writes.
blit_dst_line(rect, src_line) == rect.top + src_line

\* dst.copy_from_slice(src) panics unless both slices have the same length.
copy_len_ok(dst_len, src_len) == dst_len = src_len

\* `data` after copy_from_slice has written `values` at 0-based offset `at`.
copy_from_slice(data, at, values) ==
    SubSeq(data, 1, at) \o values
        \o SubSeq(data, at + Len(values) + 1, Len(data))

\* The loop of Image13h::subimage from row `dst_line` on.  `reads` collects
\* the 0-based indices of self.data the completed iterations have read.
RECURSIVE subimage_rows(_, _, _, _, _)
subimage_rows(self, rect, subimage, dst_line, reads) ==
    IF dst_line >= rect.height
    THEN [panicked |-> FALSE, image |-> Some(subimage), reads |-> reads]
    ELSE
        LET src_line == subimage_src_line(rect, dst_line)
            dst == mut_line_range(subimage, dst_line)
            src == line_range(self, src_line)
        IN  IF ~dst.ok \/ ~src.ok \/ ~row_range_ok(src, rect)
               \/ ~copy_len_ok(dst.to - dst.from, rect.width)
            THEN [panicked |-> TRUE, image |-> None, reads |-> reads]
            ELSE
                LET lo == subimage_src_index(src, rect)
                    values == slice(self.data, lo, lo + rect.width)
                IN  subimage_rows(self, rect,
                        [subimage EXCEPT
                            !.data = copy_from_slice(@, dst.from, values)],
                        dst_line + 1,
                        reads \cup {lo + j : j \in 0..(rect.width - 1)})

\* Image13h::subimage
subimage(self, rect) ==
    subimage_rows(self, rect, empty(rect.width, rect.height), 0, {})

\* The loop of Image13h::blit from row `src_line` of `image` on.  `writes`
\* collects the 0-based indices of self.data the completed iterations wrote.
RECURSIVE blit_rows(_, _, _, _, _)
blit_rows(self, image, rect, src_line, writes) ==
    IF src_line >= rect.height
    THEN [panicked |-> FALSE, image |-> self, writes |-> writes]
    ELSE
        LET dst_line == blit_dst_line(rect, src_line)
            dst == mut_line_range(self, dst_line)
            src == line_range(image, src_line)
        IN  IF ~dst.ok \/ ~row_range_ok(dst, rect) \/ ~src.ok
               \/ ~copy_len_ok(rect.width, src.to - src.from)
            THEN [panicked |-> TRUE, image |-> self, writes |-> writes]
            ELSE
                LET lo == blit_dst_index(dst, rect)
                    values == slice(image.data, src.from, src.to)
                IN  blit_rows(
                        [self EXCEPT !.data = copy_from_slice(@, lo, values)],
                        image, rect, src_line + 1,
                        writes \cup {lo + j : j \in 0..(rect.width - 1)})

\* Image13h::blit
blit(self, image, rect) == blit_rows(self, image, rect, 0, {})

\* An offset that takes the color index for a byte offset.
palette_offset_unscaled(color_index) == color_index

\* `*color_index as usize * 3`
palette_offset(color_index) == color_index * 3

\* indices_to_rgb from position k (1-based) of `indices` on, `out` being what
\* the writer holds so far.  The palette range index panics when the color
\* lies past the end of the palette.
RECURSIVE indices_to_rgb_from(_, _, _, _)
indices_to_rgb_from(indices, palette, k, out) ==
    IF k > Len(indices)
    THEN [panicked |-> FALSE, out |-> out]
    ELSE
        LET offset == palette_offset(indices[k]) IN
        IF ~slice_ok(Len(palette), offset, offset + 3)
        THEN [panicked |-> TRUE, out |-> out]
        ELSE indices_to_rgb_from(indices, palette, k + 1,
                 out \o slice(palette, offset, offset + 3))

\* indices_to_rgb, into an empty writer.
indices_to_rgb(indices, palette) ==
    indices_to_rgb_from(indices, palette, 1, <<>>)

----------------------------------------------------------------------------
(* Inputs.                                                                 *)

Dims == 0..MaxDim

\* Colors handed to filled_with_color and fill.
Colors == {0, 7}

\* Dimensions around the largest a header can hold.
BigDims == {U16_RANGE - 1, U16_RANGE, U16_RANGE + 1}

\* (width, height) pairs handed to the constructors.
SmallDims == Dims \X Dims

\* (width, height) pairs of the rasters saved and loaded again: one of the
\* two may be large.
TripDims == ((Dims \cup BigDims) \X Dims) \cup (Dims \X BigDims)

\* Colors of the rasters saved and loaded again.
TripColors == {0, 1, 7, 255}

Rects == {Rect(l, t, w, h) : l \in Dims, t \in Dims, w \in Dims, h \in Dims}

\* n bytes base, base + 1, ... (modulo 256): pairwise different when n < 256.
ramp(n, base) == [i \in 1..n |-> (base + i - 1) % U8_RANGE]

\* A file: header fields as given, then n data bytes.
file_bytes(wlo, whi, hlo, hhi, marker, n) ==
    <<wlo, whi, hlo, hhi>> \o marker \o ramp(n, 250)

Markers == {<<1, 0>>, <<0, 0>>, <<1, 1>>, <<0, 1>>}

\* Files with small dimensions, a good or a bad marker, and every length up
\* to one byte more than the header declares.
SmallFiles ==
    UNION {{SubSeq(file_bytes(w, 0, h, 0, m, w * h + 1), 1, n) :
                n \in 0..(HEADER_SIZE + w * h + 1)} :
           w \in Dims, h \in Dims, m \in Markers}

\* Files whose width or height needs the high byte of its field.
WideFiles ==
    {file_bytes(1, 1, 1, 0, <<1, 0>>, n) : n \in {256, 257, 258}}
        \cup {file_bytes(1, 0, 0, 1, <<1, 0>>, n) : n \in {255, 256, 257}}
        \cup {file_bytes(0, 1, 0, 1, <<1, 0>>, 0)}

InputBuffers == SmallFiles \cup WideFiles

\* Color indices handed to indices_to_rgb: one more than the longest
\* palette has colors.
Indices == 0..MaxPaletteColors \cup {U8_RANGE - 1}

IndexSeqs == UNION {[1..n -> Indices] : n \in 0..MaxIndices}

\* A palette of `len` bytes; channel k of color c holds 10 * c + k.
palette_of(len) ==
    [i \in 1..len |-> (10 * ((i - 1) \div 3) + ((i - 1) % 3)) % U8_RANGE]

Palettes ==
    {palette_of(len) :
        len \in 0..(3 * MaxPaletteColors + 2) \cup {PALETTE_SIZE_IN_BYTES}}

----------------------------------------------------------------------------
(* The state: the caller's raster `img`, a second raster `other` (the      *)
(* result of subimage, or the image handed to blit), the caller's byte     *)
(* buffer `buf` (what save wrote, or the file load reads), the record      *)
(* `last` of the latest call, and `rgb`, the latest indices_to_rgb call.   *)

NoRect == Rect(0, 0, 0, 0)

\* The record of a call: its name, how it ended ("ok", "none" for an absent
\* result, "panic"), the call before it, its rect, the receiver before the
\* call, the raster it returned, the bytes it read and the indices of the
\* receiver's data it read or wrote.
Call(op, status, rect, before, image, bytes, touched) ==
    [op |-> op, status |-> status, via |-> last.op, rect |-> rect,
     before |-> before, image |-> image, bytes |-> bytes,
     touched |-> touched]

NoRgb == [called |-> FALSE, indices |-> <<>>, palette |-> <<>>,
          panicked |-> FALSE, out |-> <<>>]

NoTrip == [called |-> FALSE, width |-> 0, height |-> 0, color |-> 0,
           written |-> 0, header |-> <<>>, loaded |-> FALSE,
           loaded_width |-> 0, loaded_height |-> 0, same |-> FALSE]

\* No palette store, sound store, font or sprite catalogue has been touched.
NoPal == [op |-> "init"]

NoSnd == [op |-> "init"]

NoFont == [op |-> "init"]

NoGraf == [op |-> "init"]

NoGame == [op |-> "init"]

Init ==
    /\ img = None
    /\ other = None
    /\ buf = <<>>
    /\ last = [op |-> "init", status |-> "ok", via |-> "init", rect |-> NoRect,
               before |-> None, image |-> None, bytes |-> <<>>,
               touched |-> {}]
    /\ rgb = NoRgb
    /\ trip = NoTrip
    /\ pal = NoPal
    /\ snd = NoSnd
    /\ font = NoFont
    /\ graf = NoGraf
    /\ game = NoGame

Constructors == {"empty", "filled_with_color"}

\* Image13h::empty(w, h): the caller builds its raster.
Empty ==
    \E d \in SmallDims :
        /\ last.op = "init"
        /\ img' = Some(empty(d[1], d[2]))
        /\ UNCHANGED <<other, buf, game>>
        /\ last' = Call("empty", "ok", NoRect, None, img', <<>>, {})
        /\ UNCHANGED <<rgb, trip, pal, snd, font, graf, game>>

\* Image13h::filled_with_color(w, h, color).
FilledWithColor ==
    \E d \in SmallDims, color \in Colors :
        /\ last.op = "init"
        /\ img' = Some(filled_with_color(d[1], d[2], color))
        /\ UNCHANGED <<other, buf, game>>
        /\ last' = Call("filled_with_color", "ok", NoRect, None, img', <<>>, {})
        /\ UNCHANGED <<rgb, trip, pal, snd, font, graf, game>>

\* The caller writes a ramp through data_mut(): the slice has the length of
\* `data`, and a slice cannot grow or shrink.
DataMutWrite ==
    /\ last.op = "empty"
    /\ img' = Some([unwrap(img) EXCEPT !.data = ramp(Len(@), 10)])
    /\ last' = Call("data_mut", "ok", NoRect, img, None, <<>>, {})
    /\ UNCHANGED <<other, buf, rgb, trip, pal, snd, font, graf, game>>

\* The caller writes a ramp into mut_line(l).
MutLineWrite ==
    /\ last.op \in {"empty", "data_mut"}
    /\ \E l \in Dims :
        LET self == unwrap(img)
            row == mut_line_range(self, l)
        IN  IF row.ok
            THEN /\ img' = Some([self EXCEPT !.data =
                        copy_from_slice(@, row.from, ramp(row.to - row.from, 50))])
                 /\ last' = Call("mut_line", "ok", Rect(0, l, self.width, 1),
                                 img, None, <<>>, row.from..(row.to - 1))
            ELSE /\ img' = img
                 /\ last' = Call("mut_line", "panic", Rect(0, l, self.width, 1),
                                 img, None, <<>>, {})
    /\ UNCHANGED <<other, buf, rgb, trip, pal, snd, font, graf, game>>

\* The environment hands the caller a file.
Input ==
    /\ last.op = "init"
    /\ \E b \in InputBuffers : buf' = b
    /\ last' = Call("input", "ok", NoRect, img, None, buf', {})
    /\ UNCHANGED <<img, other, rgb, trip, pal, snd, font, graf, game>>

\* Image13h::load(&buf[..]).
Load ==
    /\ last.op \in {"input", "save"}
    /\ LET loaded == Image13h_load(buf) IN
        /\ img' = IF is_some(loaded) THEN loaded ELSE img
        /\ last' = Call("load", IF is_some(loaded) THEN "ok" ELSE "none",
                        NoRect, img, loaded, buf, {})
    /\ UNCHANGED <<other, buf, rgb, trip, pal, snd, font, graf, game>>

\* img.save(&mut buf), buf a new Vec.
Save ==
    /\ is_some(img)
    /\ last.op \in Constructors \cup {"data_mut", "mut_line", "load", "adopt", "fill"}
    /\ buf' = Image13h_save(unwrap(img))
    /\ last' = Call("save", "ok", NoRect, img, None,
                    IF last.op = "load" /\ last.status = "ok"
                    THEN last.bytes ELSE <<>>, {})
    /\ UNCHANGED <<img, other, rgb, trip, pal, snd, font, graf, game>>

\* img.fill(color).
Fill ==
    /\ is_some(img)
    /\ last.op \in {"data_mut", "load", "adopt", "blit"}
    /\ \E color \in Colors :
        /\ img' = Some(fill(unwrap(img), color))
        /\ last' = Call("fill", "ok", NoRect, img, None, <<>>,
                        {})
    /\ UNCHANGED <<other, buf, rgb, trip, pal, snd, font, graf, game>>

\* other = img.subimage(&rect), of a raster the caller wrote or read from
\* a file.
Subimage ==
    /\ is_some(img)
    /\ \/ last.op = "data_mut"
       \/ last.op = "load" /\ last.via = "input"
    /\ \E rect \in Rects :
        LET r == subimage(unwrap(img), rect) IN
        /\ other' = r.image
        /\ last' = Call("subimage", IF r.panicked THEN "panic" ELSE "ok",
                        rect, img, r.image, <<>>, r.reads)
    /\ UNCHANGED <<img, buf, rgb, trip, pal, snd, font, graf, game>>

\* The caller goes on with the subimage as its raster.
Adopt ==
    /\ last.op = "subimage"
    /\ is_some(other)
    /\ img' = other
    /\ other' = None
    /\ last' = Call("adopt", "ok", NoRect, None, img', <<>>, {})
    /\ UNCHANGED <<buf, rgb, trip, pal, snd, font, graf, game>>

\* The caller builds a second raster, to blit it.
MakeOther ==
    /\ last.op = "data_mut"
    /\ \E w \in Dims, h \in Dims :
        other' = Some(Image13h(w, h, ramp(w * h, 100)))
    /\ last' = Call("other", "ok", NoRect, img, other', <<>>, {})
    /\ UNCHANGED <<img, buf, rgb, trip, pal, snd, font, graf, game>>

\* img.blit(&other, &rect).  After subimage the rects tried are those of the
\* subimage's size (blit's documented precondition), at every offset; with
\* a raster of the caller's own, every rect.
Blit ==
    /\ is_some(img)
    /\ is_some(other)
    /\ last.op \in {"subimage", "other"}
    /\ \E rect \in Rects :
        /\ last.op = "subimage" =>
              /\ rect.width = unwrap(other).width
              /\ rect.height = unwrap(other).height
        /\ LET r == blit(unwrap(img), unwrap(other), rect) IN
            /\ img' = Some(r.image)
            /\ last' = Call("blit", IF r.panicked THEN "panic" ELSE "ok",
                            rect, img, other, <<>>, r.writes)
    /\ UNCHANGED <<other, buf, rgb, trip, pal, snd, font, graf, game>>

\* indices_to_rgb(&indices, &palette, &mut out), out a new Vec.
IndicesToRgb ==
    /\ ~rgb.called
    /\ \E indices \in IndexSeqs, palette \in Palettes :
        LET r == indices_to_rgb(indices, palette) IN
        rgb' = [called |-> TRUE, indices |-> indices, palette |-> palette,
                panicked |-> r.panicked, out |-> r.out]
    /\ UNCHANGED <<img, other, buf, last, trip, pal, snd, font, graf, game>>

Next ==
    \/ Empty
    \/ FilledWithColor
    \/ DataMutWrite
    \/ MutLineWrite
    \/ Input
    \/ Load
    \/ Save
    \/ Fill
    \/ Subimage
    \/ Adopt
    \/ MakeOther
    \/ Blit

Spec == Init /\ [][Next]_vars

\* The caller builds a raster, saves it into a new Vec and loads the Vec.
\* `trip` keeps the arguments and what came back, not the pixel planes.
SaveThenLoad ==
    /\ ~trip.called
    /\ \E d \in TripDims, color \in TripColors :
        LET r == filled_with_color(d[1], d[2], color)
            written == Image13h_save(r)
            loaded == Image13h_load(written)
        IN  trip' = [called |-> TRUE, width |-> r.width, height |-> r.height,
                     color |-> color, written |-> Len(written),
                     header |-> SubSeq(written, 1, HEADER_SIZE),
                     loaded |-> is_some(loaded),
                     loaded_width |->
                        IF is_some(loaded) THEN unwrap(loaded).width ELSE 0,
                     loaded_height |->
                        IF is_some(loaded) THEN unwrap(loaded).height ELSE 0,
                     same |-> loaded = Some(r)]
    /\ UNCHANGED <<img, other, buf, last, rgb, pal, snd, font, graf, game>>

NextTrip == SaveThenLoad

SpecTrip == Init /\ [][NextTrip]_vars

\* indices_to_rgb is a function of its arguments alone: its calls are
\* explored on their own.
NextRgb == IndicesToRgb

SpecRgb == Init /\ [][NextRgb]_vars

----------------------------------------------------------------------------
(* Claims about load and save.                                             *)

\* The call just made is a load of the bytes that save wrote for the raster
\* `last.before`.
LoadedWhatSaveWrote ==
    last.op = "load" /\ last.via = "save" /\ is_some(last.before)

\* C1: for every raster r with width > 0 and height > 0, however it was
\* built, load applied to the bytes written by r.save returns a raster equal
\* to r.
C1_LoadOfSaveReturnsTheRaster ==
    (trip.called /\ trip.width > 0 /\ trip.height > 0) => trip.same

\* The same for rasters whose dimensions fit the header's 16-bit fields.
RoundTripWhenDimensionsFitTheHeader ==
    (/\ LoadedWhatSaveWrote
     /\ unwrap(last.before).width \in 1..(U16_RANGE - 1)
     /\ unwrap(last.before).height \in 1..(U16_RANGE - 1))
        => last.image = last.before

RoundTripOfSmallDimensions ==
    (/\ trip.called
     /\ trip.width \in 1..(U16_RANGE - 1)
     /\ trip.height \in 1..(U16_RANGE - 1))
        => trip.same

\* The width and height a file declares, read independently of load.
declared_width(b) == IF Len(b) >= 2 THEN b[1] + 256 * b[2] ELSE 0

declared_height(b) == IF Len(b) >= 4 THEN b[3] + 256 * b[4] ELSE 0

\* The five reasons for which a file holds no raster.
not_loadable(b) ==
    \/ Len(b) < 6
    \/ declared_width(b) = 0
    \/ declared_height(b) = 0
    \/ <<b[5], b[6]>> # <<1, 0>>
    \/ Len(b) - 6 < declared_width(b) * declared_height(b)

\* C2: load returns None, and never panics, exactly when the file has fewer
\* than 6 header bytes, declares width 0 or height 0, has a marker other than
\* 1,0 or has fewer than width * height bytes after the header; otherwise it
\* returns a raster, and then no strict prefix of the file's first
\* 6 + width * height bytes loads.
C2_LoadAbsentExactlyOnBadFiles ==
    last.op = "load" =>
        /\ last.status \in {"ok", "none"}
        /\ last.status = "none" <=> is_none(last.image)
        /\ is_none(last.image) <=> not_loadable(last.bytes)
        /\ is_some(last.image) =>
              \A n \in 0..(5 + declared_width(last.bytes)
                                * declared_height(last.bytes)) :
                  is_none(Image13h_load(SubSeq(last.bytes, 1, n)))

\* A file with a complete, valid header and too few data bytes was refused.
C2_Witness ==
    /\ last.op = "load"
    /\ last.via = "input"
    /\ is_none(last.image)
    /\ Len(last.bytes) >= 6
    /\ declared_width(last.bytes) > 0
    /\ declared_height(last.bytes) > 0
    /\ <<last.bytes[5], last.bytes[6]>> = <<1, 0>>

\* C3: when load succeeds on a file b with dimensions w x h, saving the
\* loaded raster writes exactly the first 6 + w * h bytes of b, and the
\* bytes of b after them do not matter: that prefix loads to the same raster.
C3_SaveOfLoadWritesTheFilePrefix ==
    (last.op = "save" /\ last.via = "load" /\ last.bytes # <<>>) =>
        LET b == last.bytes
            n == 6 + unwrap(img).width * unwrap(img).height
        IN  /\ n <= Len(b)
            /\ buf = SubSeq(b, 1, n)
            /\ SubSeq(buf, 1, 6) =
                  <<unwrap(img).width % 256, unwrap(img).width \div 256,
                    unwrap(img).height % 256, unwrap(img).height \div 256,
                    1, 0>>
            /\ SubSeq(buf, 7, n) = unwrap(img).data
            /\ Image13h_load(SubSeq(b, 1, n)) = Image13h_load(b)
            /\ Image13h_load(b) = img

\* A file with a byte after its data was loaded and saved again.
C3_Witness ==
    /\ last.op = "save"
    /\ last.via = "load"
    /\ last.bytes # <<>>
    /\ Len(last.bytes) > Len(buf)
    /\ unwrap(img).width > 1

----------------------------------------------------------------------------
(* Claims about the raster's shape.                                        *)

\* The rasters the state holds.
Rasters ==
    {unwrap(o) : o \in {x \in {img, other, last.before, last.image} :
                            is_some(x)}}

\* The calls that work on the caller's raster without replacing it.
InPlaceCalls ==
    {"data_mut", "mut_line", "fill", "subimage", "blit", "save", "other"}

C5_DimensionsArePositive ==
    \A r \in Rasters : r.width > 0 /\ r.height > 0

----------------------------------------------------------------------------
(* Claims about subimage and blit.                                         *)

\* `rect` lies within the bounds of raster r.
in_bounds(rect, r) ==
    beyond_right(rect) <= r.width /\ beyond_bottom(rect) <= r.height

\* The pixel at column x, line y of raster r.
pixel(r, x, y) == r.data[y * r.width + x + 1]

\* The columns and lines of `rect`.
columns(rect) == rect.left..(beyond_right(rect) - 1)

lines(rect) == rect.top..(beyond_bottom(rect) - 1)

\* C6: for every raster r and every rect within r's bounds, blitting
\* r.subimage(rect) back into r at rect leaves r unchanged.
C6_BlitOfSubimageChangesNothing ==
    (/\ last.op = "blit"
     /\ in_bounds(last.rect, unwrap(last.before))
     /\ last.image = subimage(unwrap(last.before), last.rect).image)
        => last.status = "ok" /\ img = last.before

\* A part of a raster, away from its left and top edges, was cut out and
\* blitted back.
C6_Witness ==
    /\ last.op = "blit"
    /\ last.via = "subimage"
    /\ in_bounds(last.rect, unwrap(last.before))
    /\ last.image = subimage(unwrap(last.before), last.rect).image
    /\ last.rect.left > 0
    /\ last.rect.top > 0
    /\ last.rect.width > 0
    /\ last.rect.height > 0

\* C7: for every raster r and rect within its bounds, r.subimage(rect) is a
\* new raster of rect.width x rect.height whose pixel (x, y) is r's pixel
\* (rect.left + x, rect.top + y), and r is not modified.
C7_SubimageCopiesTheRect ==
    (last.op = "subimage" /\ in_bounds(last.rect, unwrap(last.before))) =>
        /\ last.status = "ok"
        /\ is_some(last.image)
        /\ other = last.image
        /\ img = last.before
        /\ LET r == unwrap(img)
               sub == unwrap(last.image)
               rect == last.rect
           IN  /\ sub.width = rect.width
               /\ sub.height = rect.height
               /\ Len(sub.data) = rect.width * rect.height
               /\ \A x \in 0..(rect.width - 1), y \in 0..(rect.height - 1) :
                      pixel(sub, x, y) = pixel(r, rect.left + x, rect.top + y)

\* A rect of several pixels, away from the left and top edges, was cut out
\* of a larger raster.
C7_Witness ==
    /\ last.op = "subimage"
    /\ last.status = "ok"
    /\ last.rect.left > 0
    /\ last.rect.top > 0
    /\ last.rect.width > 1
    /\ last.rect.height > 0
    /\ unwrap(other).data # <<>>

\* C8: for every raster d, rect within its bounds and raster s of the rect's
\* size, after d.blit(s, rect) every pixel of d inside rect is the
\* corresponding pixel of s, and every pixel of d outside rect, d's width
\* and height and the whole of s are as before.
C8_BlitWritesTheRectOnly ==
    (/\ last.op = "blit"
     /\ in_bounds(last.rect, unwrap(last.before))
     /\ unwrap(last.image).width = last.rect.width
     /\ unwrap(last.image).height = last.rect.height) =>
        LET d0 == unwrap(last.before)
            d == unwrap(img)
            s == unwrap(last.image)
            rect == last.rect
        IN  /\ last.status = "ok"
            /\ d.width = d0.width
            /\ d.height = d0.height
            /\ Len(d.data) = Len(d0.data)
            /\ other = last.image
            /\ \A x \in 0..(d.width - 1), y \in 0..(d.height - 1) :
                  IF x \in columns(rect) /\ y \in lines(rect)
                  THEN pixel(d, x, y) = pixel(s, x - rect.left, y - rect.top)
                  ELSE pixel(d, x, y) = pixel(d0, x, y)

\* A raster of the caller's own was blitted into a part of a larger raster,
\* away from its left and top edges.
C8_Witness ==
    /\ last.op = "blit"
    /\ last.via = "other"
    /\ last.status = "ok"
    /\ last.rect.left > 0
    /\ last.rect.top > 0
    /\ last.rect.width > 0
    /\ last.rect.height > 1
    /\ img # last.before

\* The 0-based indices of r.data that hold the pixels `rect` addresses.
addressed(rect, r) ==
    {y * r.width + x : x \in columns(rect) \cap 0..(r.width - 1),
                       y \in lines(rect) \cap 0..(r.height - 1)}

\* C9: subimage or blit with a rect that extends beyond the raster's bounds
\* (rect.left + rect.width > width or rect.top + rect.height > height)
\* panics and returns nothing, and reads or writes no pixel of a row or
\* column other than those the rect addresses.
C9_OutOfBoundsRectPanics ==
    (/\ last.op \in {"subimage", "blit"}
     /\ ~in_bounds(last.rect, unwrap(last.before))) =>
        /\ last.status = "panic"
        /\ last.op = "subimage" => is_none(last.image) /\ is_none(other)
        /\ last.touched \subseteq addressed(last.rect, unwrap(last.before))

\* What the code does guarantee for such a rect: it never touches a pixel
\* the rect does not address, and it panics when the rect has rows, except
\* that blit into a raster of width 0 only panics on a rect that is too wide.
OutOfBoundsRectWithRows ==
    (/\ last.op \in {"subimage", "blit"}
     /\ ~in_bounds(last.rect, unwrap(last.before))) =>
        /\ last.touched \subseteq addressed(last.rect, unwrap(last.before))
        /\ (/\ last.rect.height > 0
            /\ \/ last.op = "subimage"
               \/ unwrap(last.before).width > 0
               \/ beyond_right(last.rect) > unwrap(last.before).width)
              => last.status = "panic"

----------------------------------------------------------------------------
(* Claims about indices_to_rgb.                                            *)

\* C10: for indices I and a palette P with 3 * i + 3 <= len(P) for every
\* index i of I, indices_to_rgb writes exactly 3 * len(I) bytes: for each
\* position k in order the bytes P[3 * I[k]], P[3 * I[k] + 1],
\* P[3 * I[k] + 2]; indices 1,2,0 and palette 0,1,2,10,11,12,20,21,22 give
\* 10,11,12,20,21,22,0,1,2.
C10_IndicesToRgbWritesTheTriples ==
    /\ (/\ rgb.called
        /\ \A k \in 1..Len(rgb.indices) :
              3 * rgb.indices[k] + 3 <= Len(rgb.palette)) =>
           /\ ~rgb.panicked
           /\ Len(rgb.out) = 3 * Len(rgb.indices)
           /\ \A k \in 1..Len(rgb.indices), c \in 0..2 :
                 rgb.out[3 * (k - 1) + c + 1]
                    = rgb.palette[3 * rgb.indices[k] + c + 1]
    /\ (/\ rgb.called
        /\ rgb.indices = <<1, 2, 0>>
        /\ rgb.palette = <<0, 1, 2, 10, 11, 12, 20, 21, 22>>) =>
           rgb.out = <<10, 11, 12, 20, 21, 22, 0, 1, 2>>

\* The example of the claim was converted.
C10_Witness ==
    /\ rgb.called
    /\ rgb.indices = <<1, 2, 0>>
    /\ rgb.palette = <<0, 1, 2, 10, 11, 12, 20, 21, 22>>
    /\ ~rgb.panicked

\* C11 as stated: indices_to_rgb with a palette of fewer than 256 colors
\* (768 bytes) terminates fatally instead of producing output.
C11_ShortPaletteIsFatal ==
    (rgb.called /\ Len(rgb.palette) < PALETTE_SIZE_IN_BYTES) => rgb.panicked

\* C11 as the code has it: indices_to_rgb terminates fatally exactly when
\* some index i of the input has 3 * i + 3 > len(palette), after writing the
\* triples of the indices before the first such index; so a palette of 256
\* colors or more never fails, and a shorter one produces output whenever
\* every index fits.
C11_FatalExactlyOnIndexPastPalette ==
    rgb.called =>
        LET bad == {k \in 1..Len(rgb.indices) :
                       3 * rgb.indices[k] + 3 > Len(rgb.palette)}
        IN  /\ rgb.panicked <=> bad # {}
            /\ rgb.panicked =>
                  \E k \in bad :
                      /\ \A j \in bad : k <= j
                      /\ Len(rgb.out) = 3 * (k - 1)
            /\ Len(rgb.palette) >= PALETTE_SIZE_IN_BYTES => ~rgb.panicked

\* A short palette made the call fail at its second index, after one triple.
C11_Witness ==
    /\ rgb.called
    /\ rgb.panicked
    /\ Len(rgb.palette) < PALETTE_SIZE_IN_BYTES
    /\ Len(rgb.palette) > 0
    /\ Len(rgb.out) = 3

----------------------------------------------------------------------------
(* usize arithmetic.  A usize is kept as USIZE_LIMBS limbs of 16 bits,     *)
(* least significant first, so that products past the 64-bit range can be  *)
(* computed.  An overflowing `*` or `+` panics in a build with overflow    *)
(* checks (the debug profile) and wraps in one without (the release        *)
(* profile).                                                               *)

\* The limbs of a 64-bit usize.
USIZE_LIMBS == 4

\* The usize of a natural below 2^31.
usize_of(n) ==
    [k \in 1..USIZE_LIMBS |->
        IF k = 1 THEN n % U16_RANGE ELSE IF k = 2 THEN n \div U16_RANGE ELSE 0]

\* A usize is small when it is the usize of a natural below 2^31.
usize_is_small(x) ==
    /\ x[2] < U16_RANGE \div 2
    /\ \A k \in 3..USIZE_LIMBS : x[k] = 0

\* The natural of a small usize.
usize_to_nat(x) == x[1] + U16_RANGE * x[2]

\* x * c + carry from limb k on, for c below 2^15: the wrapped limbs and
\* whether the result overflowed.
RECURSIVE usize_mul_from(_, _, _, _, _)
usize_mul_from(x, c, k, carry, out) ==
    IF k > USIZE_LIMBS
    THEN [value |-> out, overflow |-> carry # 0]
    ELSE LET t == x[k] * c + carry
         IN  usize_mul_from(x, c, k + 1, t \div U16_RANGE,
                            Append(out, t % U16_RANGE))

\* x * c
usize_mul(x, c) == usize_mul_from(x, c, 1, 0, <<>>)

\* x + c, for c below 2^15
usize_add(x, c) == usize_mul_from(x, 1, 1, c, <<>>)

\* The range index data[from..to] of a slice of `len` elements, `from` and
\* `to` being usizes: from <= to and to <= len.
usize_slice_ok(len, from, to) ==
    /\ usize_is_small(to)
    /\ usize_to_nat(to) <= len
    /\ usize_is_small(from)
    /\ usize_to_nat(from) <= usize_to_nat(to)

----------------------------------------------------------------------------
(* pal.dat (src/src/paldat.rs).                                            *)

\* The most palettes an input file holds.
MaxPalettes == 2

\* struct Paldat
Paldat(data) == [data |-> data]

\* A load that also refuses the empty file.
length_invalid_or_empty(len) == len = 0 \/ len % PALETTE_SIZE_IN_BYTES # 0

\* The test `data.len() % PALETTE_SIZE_IN_BYTES != 0` of Paldat::load.
length_invalid(len) == len % PALETTE_SIZE_IN_BYTES # 0

\* Paldat::load: read_to_end of a slice reads all of it and cannot fail.
Paldat_load(reader) ==
    LET data == reader IN
    IF length_invalid(Len(data)) THEN None ELSE Some(Paldat(data))

\* Paldat::palettes
palettes(self) == Len(self.data) \div PALETTE_SIZE_IN_BYTES

\* A start that takes the palette's number for its byte offset.
palette_start_unscaled(palette) == usize_mul(palette, 1)

\* The first byte of palette `palette`, as Paldat::palette_data computes it.
palette_start(palette) == usize_mul(palette, PALETTE_SIZE_IN_BYTES)

\* The end of palette `palette`, as Paldat::palette_data computes it.
palette_end(palette) ==
    LET next == usize_add(palette, 1)
        end == usize_mul(next.value, PALETTE_SIZE_IN_BYTES)
    IN  [value |-> end.value, overflow |-> next.overflow \/ end.overflow]

\* Paldat::palette_data(palette), `palette` a usize, in a build with or
\* without overflow checks: the two products, then the range index.
palette_data(self, palette, overflow_checks) ==
    LET start == palette_start(palette)
        end == palette_end(palette)
    IN  IF overflow_checks /\ (start.overflow \/ end.overflow)
        THEN [panicked |-> TRUE, data |-> <<>>, from |-> 0]
        ELSE IF ~usize_slice_ok(Len(self.data), start.value, end.value)
        THEN [panicked |-> TRUE, data |-> <<>>, from |-> 0]
        ELSE [panicked |-> FALSE,
              data |-> slice(self.data, usize_to_nat(start.value),
                             usize_to_nat(end.value)),
              from |-> usize_to_nat(start.value)]

\* The bytes of the input files: those of the repository's test,
\* (v >> 3) as u8, and two other patterns.
pal_byte(content, v) ==
    IF content = "test" THEN (v \div 8) % U8_RANGE
    ELSE IF content = "mod251" THEN v % 251
    ELSE (7 * v + 3) % U8_RANGE

PalContents == {"test", "mod251", "affine"}

\* How far from a multiple of the palette size the input lengths lie.
PalSlack == {-1, 0, 1, 384}

PalLengths ==
    {n \in {k * PALETTE_SIZE_IN_BYTES + d : k \in 0..MaxPalettes, d \in PalSlack} :
        n >= 0}

PalFiles ==
    {[v \in 1..n |-> pal_byte(content, v - 1)] :
        n \in PalLengths, content \in PalContents}

\* The indices a caller asks for: the small ones, and usizes whose product
\* with the palette size passes 2^64.
PalIndices ==
    {usize_of(i) : i \in 0..(MaxPalettes + 1)}
        \cup {<<0, 0, 0, 256>>, <<1, 0, 0, 256>>, <<0, 0, 0, 512>>,
              <<65535, 65535, 65535, 65535>>}

\* A caller holds the bytes of a file.
PaldatInput ==
    /\ pal.op = "init"
    /\ \E bytes \in PalFiles :
        pal' = [op |-> "input", bytes |-> bytes]
    /\ UNCHANGED <<img, other, buf, last, rgb, trip, snd, font, graf, game>>

\* Paldat::load(&bytes[..])
PaldatLoad ==
    /\ pal.op = "input"
    /\ pal' = [op |-> "load", bytes |-> pal.bytes,
               store |-> Paldat_load(pal.bytes)]
    /\ UNCHANGED <<img, other, buf, last, rgb, trip, snd, font, graf, game>>

\* paldat.palette_data(index)
PaletteData ==
    /\ pal.op = "load"
    /\ is_some(pal.store)
    /\ \E index \in PalIndices, overflow_checks \in BOOLEAN :
        LET r == palette_data(unwrap(pal.store), index, overflow_checks) IN
        pal' = [op |-> "palette_data", bytes |-> pal.bytes,
                store |-> pal.store, index |-> index,
                panicked |-> r.panicked, data |-> r.data, from |-> r.from]
    /\ UNCHANGED <<img, other, buf, last, rgb, trip, snd, font, graf, game>>

NextPal ==
    \/ PaldatInput
    \/ PaldatLoad
    \/ PaletteData

SpecPal == Init /\ [][NextPal]_vars

\* C12: Paldat::load returns None exactly when the number of bytes read is
\* not a multiple of 768, and a store for every input whose length is a
\* multiple of 768, the empty input included, which gives 0 palettes.
C12_PaldatLoadAbsentExactlyOffMultiples ==
    pal.op = "load" =>
        /\ is_none(pal.store) <=>
              \A k \in 0..(MaxPalettes + 1) : Len(pal.bytes) # 768 * k
        /\ (is_some(pal.store) /\ pal.bytes = <<>>) =>
              palettes(unwrap(pal.store)) = 0

\* An input of one palette and one byte more was refused.
C12_Witness ==
    /\ pal.op = "load"
    /\ Len(pal.bytes) = 769
    /\ is_none(pal.store)

\* The index of a lookup is one of an existing palette.
pal_index_in_range ==
    /\ usize_is_small(pal.index)
    /\ usize_to_nat(pal.index) < palettes(unwrap(pal.store))

\* The palettes of `self` one after the other, from palette i on.
RECURSIVE palettes_from(_, _)
palettes_from(self, i) ==
    IF i >= palettes(self) THEN <<>>
    ELSE palette_data(self, usize_of(i), TRUE).data
            \o palettes_from(self, i + 1)

\* C13: for a store loaded from bytes B, palettes() = len(B) / 768 and
\* palette_data(i), for every i < palettes(), is exactly the 768 bytes
\* B[768 * i .. 768 * (i + 1)]; the palettes do not overlap and together
\* they cover all of B.
C13_PalettesAreTheChunksOfTheFile ==
    /\ (pal.op = "load" /\ is_some(pal.store)) =>
          /\ 768 * palettes(unwrap(pal.store)) = Len(pal.bytes)
          /\ palettes_from(unwrap(pal.store), 0) = pal.bytes
    /\ (pal.op = "palette_data" /\ pal_index_in_range) =>
          LET i == usize_to_nat(pal.index) IN
          /\ ~pal.panicked
          /\ Len(pal.data) = 768
          /\ pal.from = 768 * i
          /\ \A k \in 1..768 : pal.data[k] = pal.bytes[768 * i + k]

\* The second palette of a file of two was looked up.
C13_Witness ==
    /\ pal.op = "palette_data"
    /\ Len(pal.bytes) = 1536
    /\ pal.index = usize_of(1)
    /\ ~pal.panicked
    /\ pal.data # SubSeq(pal.bytes, 1, 768)


\* What the code guarantees: the lookup panics when the index is out of
\* range and its products with the palette size do not overflow.
PaletteDataPanicsWithoutOverflow ==
    (/\ pal.op = "palette_data"
     /\ ~pal_index_in_range
     /\ ~palette_start(pal.index).overflow
     /\ ~palette_end(pal.index).overflow) => pal.panicked

----------------------------------------------------------------------------
(* sound.dat (src/src/sounddat.rs).                                        *)

\* The most clips a well-formed input file is made of, and their greatest
\* length.
MaxClips == 3

MaxClipLen == 4

\* Sounddat::load: const ENTRY_SIZE
ENTRY_SIZE == 4

\* struct Sounddat
Sounddat(data, sizes, offsets) ==
    [data |-> data, sizes |-> sizes, offsets |-> offsets]

\* u32::from_le_bytes(buffer) as usize.  The input files keep the last byte
\* of a field below 64, so that the sums of the scan stay below 2^31.
from_le_bytes_u32(buffer) ==
    buffer[1] + U8_RANGE * buffer[2] + U8_RANGE * U8_RANGE * buffer[3]
        + U8_RANGE * U8_RANGE * U8_RANGE * buffer[4]

\* A scan that does not compare the running sum with the bytes left before
\* it goes on: it stops only where the two are equal.
RECURSIVE scan_without_overshoot_test(_, _, _, _, _)
scan_without_overshoot_test(data, accumulator, sounds, data_bytes, sizes) ==
    IF Len(data) < ENTRY_SIZE * (sounds + 1)
    THEN [status |-> "panic", sizes |-> sizes, sounds |-> sounds]
    ELSE
        LET offset == Len(data) - ENTRY_SIZE * (sounds + 1)
            entry == from_le_bytes_u32(slice(data, offset, offset + ENTRY_SIZE))
        IN  IF accumulator + entry = data_bytes - ENTRY_SIZE
            THEN [status |-> "ok", sizes |-> Append(sizes, entry),
                  sounds |-> sounds + 1]
            ELSE scan_without_overshoot_test(data, accumulator + entry,
                     sounds + 1, data_bytes - ENTRY_SIZE,
                     Append(sizes, entry))

\* The loop of Sounddat::load, entered with `sounds` fields read.  The
\* subtraction that gives `offset` underflows when fewer than ENTRY_SIZE
\* unread bytes are left: a build with overflow checks panics there, and one
\* without wraps to an offset past the data, where the range index panics.
RECURSIVE scan(_, _, _, _, _)
scan(data, accumulator, sounds, data_bytes, sizes) ==
    LET total_bytes == Len(data) IN
    IF total_bytes < ENTRY_SIZE * (sounds + 1)
    THEN [status |-> "panic", sizes |-> sizes, sounds |-> sounds]
    ELSE
        LET offset == total_bytes - ENTRY_SIZE * (sounds + 1)
            entry == from_le_bytes_u32(slice(data, offset, offset + ENTRY_SIZE))
            data_bytes1 == data_bytes - ENTRY_SIZE
            sounds1 == sounds + 1
            sizes1 == Append(sizes, entry)
            accumulator1 == accumulator + entry
        IN  IF accumulator1 > data_bytes1
            THEN [status |-> "none", sizes |-> sizes1, sounds |-> sounds1]
            ELSE IF accumulator1 = data_bytes1
            THEN [status |-> "ok", sizes |-> sizes1, sounds |-> sounds1]
            ELSE scan(data, accumulator1, sounds1, data_bytes1, sizes1)

\* A load that keeps the sizes in the order the scan read them.
reverse_forgotten(sizes) == sizes

\* sizes.reverse()
reverse(sizes) == [k \in 1..Len(sizes) |-> sizes[Len(sizes) + 1 - k]]

\* A loop that pushes the offset after it has added the size.
RECURSIVE offsets_pushed_late(_, _, _, _)
offsets_pushed_late(sizes, k, offset, offsets) ==
    IF k > Len(sizes) THEN offsets
    ELSE offsets_pushed_late(sizes, k + 1, offset + sizes[k],
                             Append(offsets, offset + sizes[k]))

\* The loop that fills `offsets`: the running sums of the sizes.
RECURSIVE offsets_from(_, _, _, _)
offsets_from(sizes, k, offset, offsets) ==
    IF k > Len(sizes) THEN offsets
    ELSE offsets_from(sizes, k + 1, offset + sizes[k], Append(offsets, offset))

\* Sounddat::load: the status of the call, the store it returns and the
\* number of size fields it read.
Sounddat_load(reader) ==
    LET data == reader
        r == scan(data, 0, 0, Len(data), <<>>)
    IN  IF r.status # "ok"
        THEN [status |-> r.status, store |-> None, fields |-> r.sounds]
        ELSE LET sizes == reverse(r.sizes)
             IN  [status |-> "ok",
                  store |-> Some(Sounddat(data, sizes,
                                          offsets_from(sizes, 1, 0, <<>>))),
                  fields |-> r.sounds]

\* Sounddat::sounds
sounds(self) == Len(self.sizes)

\* Sounddat::sound_data(sound): the index into `offsets` and `sizes`, then
\* the range index into `data`.
sound_data(self, sound) ==
    IF sound >= Len(self.offsets) \/ sound >= Len(self.sizes)
    THEN [panicked |-> TRUE, data |-> <<>>]
    ELSE LET offset == self.offsets[sound + 1]
             end == offset + self.sizes[sound + 1]
         IN  IF ~slice_ok(Len(self.data), offset, end)
             THEN [panicked |-> TRUE, data |-> <<>>]
             ELSE [panicked |-> FALSE, data |-> slice(self.data, offset, end)]

\* A split that hands back the two parts exchanged.
split_off_exchanged(chunk, at) ==
    IF at > Len(chunk)
    THEN [panicked |-> TRUE, chunk |-> chunk, rest |-> <<>>]
    ELSE [panicked |-> FALSE, chunk |-> slice(chunk, at, Len(chunk)),
          rest |-> slice(chunk, 0, at)]

\* rest = chunk.split_off(at): chunk keeps [0, at), rest gets [at, len);
\* Vec::split_off panics if at > len.
split_off(chunk, at) ==
    IF at > Len(chunk)
    THEN [panicked |-> TRUE, chunk |-> chunk, rest |-> <<>>]
    ELSE [panicked |-> FALSE, chunk |-> slice(chunk, 0, at),
          rest |-> slice(chunk, at, Len(chunk))]

\* The loop of into_vecs at size k (1-based), `rest` and `vecs` being what
\* the sizes before it left.
RECURSIVE into_vecs_from(_, _, _, _)
into_vecs_from(rest, sizes, k, vecs) ==
    IF k > Len(sizes) THEN [panicked |-> FALSE, vecs |-> vecs]
    ELSE LET split == split_off(rest, sizes[k]) IN
         IF split.panicked THEN [panicked |-> TRUE, vecs |-> vecs]
         ELSE into_vecs_from(split.rest, sizes, k + 1,
                             Append(vecs, split.chunk))

\* Sounddat::into_vecs
into_vecs(self) == into_vecs_from(self.data, self.sizes, 1, <<>>)

\* The size table of a file: the sizes as 4-byte little-endian fields.
RECURSIVE size_table(_)
size_table(lens) ==
    IF lens = <<>> THEN <<>>
    ELSE <<Head(lens) % U8_RANGE, (Head(lens) \div U8_RANGE) % U8_RANGE,
           (Head(lens) \div (U8_RANGE * U8_RANGE)) % U8_RANGE,
           Head(lens) \div (U8_RANGE * U8_RANGE * U8_RANGE)>>
         \o size_table(Tail(lens))

\* The bytes of the clips: those of the repository's test, 1, 2, 3, ...
\* running through the clips, or bytes that look like size fields.
clip_byte(content, v) ==
    IF content = "test" THEN (v + 1) % U8_RANGE
    ELSE IF content = "zeros" THEN 0
    ELSE IF v % ENTRY_SIZE = 0 THEN ENTRY_SIZE ELSE 0

ClipContents == {"test", "zeros", "fields"}

\* The clips of the given lengths, cut from the running bytes of `content`.
RECURSIVE clips_of(_, _, _)
clips_of(lens, content, at) ==
    IF lens = <<>> THEN <<>>
    ELSE <<[v \in 1..Head(lens) |-> clip_byte(content, at + v - 1)]>>
         \o clips_of(Tail(lens), content, at + Head(lens))

RECURSIVE concat(_)
concat(seqs) == IF seqs = <<>> THEN <<>> ELSE Head(seqs) \o concat(Tail(seqs))

ClipLengths == UNION {[1..n -> 0..MaxClipLen] : n \in 1..MaxClips}

\* A caller holds a well-formed file: N >= 1 clips, then their N sizes.
SounddatInput ==
    /\ snd.op = "init"
    /\ \E lens \in ClipLengths, content \in ClipContents :
        LET clips == clips_of(lens, content, 0) IN
        snd' = [op |-> "input", clips |-> clips,
                bytes |-> concat(clips) \o size_table(lens)]
    /\ UNCHANGED <<img, other, buf, last, rgb, trip, pal, font, graf, game>>

\* Sounddat::load(&bytes[..])
SounddatLoad ==
    /\ snd.op = "input"
    /\ LET r == Sounddat_load(snd.bytes) IN
       snd' = [op |-> "load", clips |-> snd.clips, bytes |-> snd.bytes,
               status |-> r.status, store |-> r.store, fields |-> r.fields]
    /\ UNCHANGED <<img, other, buf, last, rgb, trip, pal, font, graf, game>>

\* sounddat.sound_data(index)
SoundData ==
    /\ snd.op = "load"
    /\ is_some(snd.store)
    /\ \E index \in 0..(MaxClips + 1) :
        LET r == sound_data(unwrap(snd.store), index) IN
        snd' = [op |-> "sound_data", clips |-> snd.clips,
                bytes |-> snd.bytes, status |-> snd.status,
                store |-> snd.store, fields |-> snd.fields,
                index |-> index, panicked |-> r.panicked, data |-> r.data]
    /\ UNCHANGED <<img, other, buf, last, rgb, trip, pal, font, graf, game>>

NextSnd ==
    \/ SounddatInput
    \/ SounddatLoad
    \/ SoundData

SpecSnd == Init /\ [][NextSnd]_vars

\* C20: the file made of N >= 1 clips followed by their N sizes as 4-byte
\* little-endian fields loads with sounds() = N and sound_data(i) = clip i
\* for every i < N; the backward scan reads exactly N fields, never stops
\* before and never reports an overshoot.  The bytes 1,2,3,4,5,6, 4,0,0,0,
\* 2,0,0,0 give the clips 1,2,3,4 and 5,6.
C20_WellFormedFileLoadsItsClips ==
    /\ snd.op = "load" =>
          /\ snd.status = "ok"
          /\ is_some(snd.store)
          /\ snd.fields = Len(snd.clips)
          /\ sounds(unwrap(snd.store)) = Len(snd.clips)
          /\ \A i \in 0..(Len(snd.clips) - 1) :
                sound_data(unwrap(snd.store), i)
                    = [panicked |-> FALSE, data |-> snd.clips[i + 1]]
    /\ (snd.op = "sound_data" /\ snd.index < Len(snd.clips)) =>
          ~snd.panicked /\ snd.data = snd.clips[snd.index + 1]
    /\ (snd.op = "load"
            /\ snd.bytes = <<1, 2, 3, 4, 5, 6, 4, 0, 0, 0, 2, 0, 0, 0>>) =>
          /\ sounds(unwrap(snd.store)) = 2
          /\ sound_data(unwrap(snd.store), 0).data = <<1, 2, 3, 4>>
          /\ sound_data(unwrap(snd.store), 1).data = <<5, 6>>

\* The second clip of the file of the example was looked up.
C20_Witness ==
    /\ snd.op = "sound_data"
    /\ snd.bytes = <<1, 2, 3, 4, 5, 6, 4, 0, 0, 0, 2, 0, 0, 0>>
    /\ snd.index = 1
    /\ snd.data = <<5, 6>>

\* sound_data with an index that is not one of a clip panics.
SoundDataOutOfRangePanics ==
    (snd.op = "sound_data" /\ snd.index >= sounds(unwrap(snd.store))) =>
        snd.panicked /\ snd.data = <<>>

\* C14: a lookup with an out-of-range index is fatal: palette_data(i) with
\* i >= palettes() and sound_data(i) with i >= sounds() panic and return no
\* data.
C14_OutOfRangeLookupPanics ==
    /\ (pal.op = "palette_data" /\ ~pal_index_in_range) =>
          pal.panicked /\ pal.data = <<>>
    /\ (snd.op = "sound_data" /\ snd.index >= sounds(unwrap(snd.store))) =>
          snd.panicked /\ snd.data = <<>>

----------------------------------------------------------------------------
(* sound.dat read from arbitrary buffers, and into_vecs.                   *)

MaxBufLen == 9

\* The byte values of the buffers: enough to make size fields 0, 1 and 4
\* and larger ones.
BufferBytes == {0, 1, 4}

Buffers == UNION {[1..n -> BufferBytes] : n \in 0..MaxBufLen}

\* A caller holds any buffer: empty, shorter than a size field, with size
\* fields that overshoot, that never balance, or well-formed.
SounddatBufferInput ==
    /\ snd.op = "init"
    /\ \E bytes \in Buffers :
        snd' = [op |-> "input", clips |-> <<>>, bytes |-> bytes]
    /\ UNCHANGED <<img, other, buf, last, rgb, trip, pal, font, graf, game>>

\* sounddat.into_vecs()
IntoVecs ==
    /\ snd.op = "load"
    /\ is_some(snd.store)
    /\ LET r == into_vecs(unwrap(snd.store)) IN
       snd' = [op |-> "into_vecs", clips |-> snd.clips,
               bytes |-> snd.bytes, status |-> snd.status,
               store |-> snd.store, fields |-> snd.fields,
               panicked |-> r.panicked, vecs |-> r.vecs]
    /\ UNCHANGED <<img, other, buf, last, rgb, trip, pal, font, graf, game>>

NextSndBuffers ==
    \/ SounddatBufferInput
    \/ SounddatLoad
    \/ SoundData
    \/ IntoVecs

SpecSndBuffers == Init /\ [][NextSndBuffers]_vars

RECURSIVE sum_of(_)
sum_of(sizes) == IF sizes = <<>> THEN 0 ELSE Head(sizes) + sum_of(Tail(sizes))

\* The k-th size field counted from the end of the buffer, k >= 1.
field_from_end(bytes, k) ==
    LET at == Len(bytes) - ENTRY_SIZE * k IN
    bytes[at + 1] + U8_RANGE * bytes[at + 2]
        + U8_RANGE * U8_RANGE * bytes[at + 3]
        + U8_RANGE * U8_RANGE * U8_RANGE * bytes[at + 4]

\* The sum of the last k size fields of the buffer.
running_sum(bytes, k) ==
    sum_of([j \in 1..k |-> field_from_end(bytes, j)])

\* C21: when load succeeds on B bytes with N = sounds(), the clip sizes
\* and the 4N bytes of the size table add up to B; the offsets are the
\* prefix sums of the sizes, starting at 0; so the clips are contiguous, in
\* file order, and the last one ends where the size table begins.
C21_SizesAndOffsetsTileTheFile ==
    (snd.op = "load" /\ snd.status = "ok") =>
        LET self == unwrap(snd.store)
            N == sounds(self)
        IN  /\ N >= 1
            /\ self.data = snd.bytes
            /\ sum_of(self.sizes) + ENTRY_SIZE * N = Len(snd.bytes)
            /\ Len(self.offsets) = N
            /\ self.offsets[1] = 0
            /\ \A i \in 1..(N - 1) :
                  self.offsets[i + 1] = self.offsets[i] + self.sizes[i]
            /\ self.offsets[N] + self.sizes[N]
                  = Len(snd.bytes) - ENTRY_SIZE * N
            /\ \A i \in 1..N :
                  self.sizes[i] = field_from_end(snd.bytes, N + 1 - i)

\* A buffer with two clips of different sizes was loaded.
C21_Witness ==
    /\ snd.op = "load"
    /\ snd.status = "ok"
    /\ unwrap(snd.store).sizes = <<1, 0>>
    /\ unwrap(snd.store).offsets = <<0, 1>>

\* C22: if, after the k-th size field from the end is read, the running
\* sum is greater than the file length minus 4k, load returns None there
\* and reads no further field.
C22_OvershootStopsTheScan ==
    snd.op = "load" =>
        \A k \in 1..snd.fields :
            running_sum(snd.bytes, k) > Len(snd.bytes) - ENTRY_SIZE * k =>
                /\ snd.status = "none"
                /\ snd.store = None
                /\ snd.fields = k

\* The second field from the end overshot, with a byte left unread.
C22_Witness ==
    /\ snd.op = "load"
    /\ snd.status = "none"
    /\ snd.fields = 2
    /\ Len(snd.bytes) = MaxBufLen
    /\ running_sum(snd.bytes, 1) = 0

\* C23: load returns a store or None for every buffer and never panics.
C23_LoadNeverPanics ==
    snd.op = "load" => snd.status \in {"ok", "none"}

\* A buffer of five bytes made the scan run out of fields.
LoadRanOutOfFields ==
    /\ snd.op = "load"
    /\ snd.status = "panic"
    /\ snd.bytes = <<1, 0, 0, 0, 0>>
    /\ snd.fields = 1

\* C27: into_vecs() returns sounds() buffers in file order, buffer i being
\* sound_data(i); together they are the bytes before the size table.
C27_IntoVecsAreTheClips ==
    snd.op = "into_vecs" =>
        LET self == unwrap(snd.store) IN
        /\ ~snd.panicked
        /\ Len(snd.vecs) = sounds(self)
        /\ \A i \in 0..(sounds(self) - 1) :
              sound_data(self, i)
                  = [panicked |-> FALSE, data |-> snd.vecs[i + 1]]
        /\ concat(snd.vecs)
              = slice(snd.bytes, 0,
                      Len(snd.bytes) - ENTRY_SIZE * sounds(self))

\* A store of a clip of one byte and an empty clip was taken apart.
C27_Witness ==
    /\ snd.op = "into_vecs"
    /\ snd.vecs = <<<<4>>, <<>>>>

----------------------------------------------------------------------------
(* graf.dat (src/src/grafdat.rs): the constants and the rect table.        *)

SEGMENT_SIZE == 33000

SEGMENTS == 30

FILE_SIZE == SEGMENT_SIZE * SEGMENTS

IMAGES == 15

FIRST_HALF_DIMENSIONS == <<319, 100>>

SECOND_HALF_DIMENSIONS == <<319, 99>>

IMAGE_DIMENSIONS == <<319, 199>>

\* (a..b).map(|i| (index, f(i))): the entries for i = a, ..., b - 1.
range_map(a, b, index, f(_)) ==
    [k \in 1..(b - a) |-> <<index, f(a + k - 1)>>]

\* (a..b).flat_map(|i| f(i)): the sequences f(a), ..., f(b - 1) chained.
flat_map(a, b, f(_)) == concat([k \in 1..(b - a) |-> f(a + k - 1)])

mouse ==
    range_map(1, 13, 3, LAMBDA i : <<11 + (i - 1) * 16, 8, 11 + i * 16, 22>>)

buttons ==
    range_map(0, 14, 3, LAMBDA i : <<11 + i * 16, 22, 27 + i * 16, 22 + 14>>)
        \o <<<<3, <<235 + 16, 8, 235 + 32, 8 + 14>>>>,
             <<3, <<235, 8, 235 + 16, 8 + 14>>>>>>

tree_coords(i) ==
    <<<<0, 0, 0, 0>>,
      <<235, 22 + i * 56, 235 + 16, 36 + i * 56>>,
      <<235 + 16, 22 + i * 56, 235 + 32, 36 + i * 56>>,
      <<235, 36 + i * 56, 235 + 16, 50 + i * 56>>,
      <<235 + 16, 36 + i * 56, 235 + 32, 50 + i * 56>>,
      <<235, 50 + i * 56, 235 + 16, 64 + i * 56>>,
      <<235 + 16, 50 + i * 56, 235 + 32, 64 + i * 56>>,
      <<235 + 16, 64 + i * 56, 235 + 32, 78 + i * 56>>>>

trees ==
    LET coords == flat_map(0, 2, tree_coords)
    IN  [k \in 1..Len(coords) |-> <<3, coords[k]>>]

dead ==
    range_map(0, 3, 3,
        LAMBDA i : <<11 + 13 * 16, 8 + (3 + i) * 14,
                     27 + 13 * 16, 8 + (4 + i) * 14>>)

hit ==
    <<<<3, <<11 + 12 * 16, 8, 27 + 12 * 16, 21>>>>,
      <<3, <<11 + 13 * 16, 8, 27 + 13 * 16, 21>>>>>>

\* One row of the buildings: the right-most rect is one pixel narrower.
building_row(j) ==
    range_map(0, 20, 7,
        LAMBDA i : <<i * 16, (j + 6) * 14,
                     (i + 1) * 16 - (IF i = 19 THEN 1 ELSE 0),
                     (j + 7) * 14>>)

pictures ==
    range_map(0, 3, 3, LAMBDA i : <<11 + 16 * i, 36, 27 + 16 * i, 50>>)
    \o range_map(0, 6, 4, LAMBDA i : <<303, (2 + i) * 14, 319, (3 + i) * 14>>)
    \o range_map(0, 13, 3, LAMBDA i : <<11 + 16 * i, 92, 27 + 16 * i, 106>>)
    \o range_map(0, 3, 3,
           LAMBDA i : <<235, 134 + (i * 19), 257, 152 + (i * 19)>>)
    \o range_map(3, 13, 3,
           LAMBDA i : <<11 + 16 * i, 8 + 126, 27 + 16 * i, 8 + 140>>)
    \o range_map(0, 11, 3,
           LAMBDA i : <<11 + 16 * i, 8 + 140, 27 + 16 * i, 8 + 154>>)
    \o range_map(0, 8, 3,
           LAMBDA i : <<11 + 16 * i, 8 + 154, 27 + 16 * i, 8 + 168>>)
    \o range_map(3, 14, 3, LAMBDA i : <<11 + 16 * i, 36, 27 + 16 * i, 50>>)
    \o range_map(0, 3, 3,
           LAMBDA i : <<11 + 16 * (i + 11), 8 + 140,
                        27 + 16 * (i + 11), 22 + 140>>)
    \o range_map(0, 6, 3,
           LAMBDA i : <<11 + 16 * (i + 8), 8 + 154,
                        27 + 16 * (i + 8), 22 + 154>>)
    \o range_map(0, 13, 3, LAMBDA i : <<11 + 16 * i, 50, 27 + 16 * i, 64>>)
    \o range_map(0, 13, 3, LAMBDA i : <<11 + 16 * i, 64, 27 + 16 * i, 78>>)
    \o range_map(0, 13, 3, LAMBDA i : <<11 + 16 * i, 78, 27 + 16 * i, 92>>)
    \o range_map(0, 7, 3,
           LAMBDA i : <<11 + 32 * i, 8 + (8 * 14), 43 + 32 * i, 8 + (9 * 14)>>)
    \o range_map(0, 7, 3,
           LAMBDA i : <<11 + 32 * i, 8 + (7 * 14), 43 + 32 * i, 8 + (8 * 14)>>)
    \o range_map(0, 9, 7, LAMBDA i : <<i * 16, 12 * 14, (i + 1) * 16, 13 * 14>>)
    \o <<<<3, <<0, 0, 1, 1>>>>>>
    \o flat_map(0, 6, building_row)
    \o range_map(0, 9, 7, LAMBDA i : <<i * 16, 13 * 14, (i + 1) * 16, 14 * 14>>)
    \o range_map(0, 12, 4,
           LAMBDA i : <<303 - 16, i * 14, 319 - 16, (i + 1) * 14>>)
    \o range_map(0, 4, 4, LAMBDA i : <<303, (8 + i) * 14, 319, (9 + i) * 14>>)
    \o range_map(0, 2, 4, LAMBDA i : <<303, i * 14, 319, (1 + i) * 14>>)

fire ==
    range_map(0, 14, 3,
        LAMBDA i : <<11 + 16 * i, 8 + 168, 27 + 16 * i, 8 + 168 + 14>>)

borders ==
    <<<<3, <<0, 0, 11, 197>>>>,
      <<3, <<0, 0, 268, 8>>>>,
      <<3, <<267, 0, 274, 199>>>>,
      <<3, <<0, 190, 268, 199>>>>>>

wood ==
    <<<<3, <<272, 7, 276, 28>>>>,
      <<3, <<278, 7, 310, 28>>>>,
      <<3, <<299, 9, 314, 150>>>>>>

second_buttons ==
    <<<<7, <<108, 142, 219, 160>>>>,
      <<7, <<108, 114, 219, 132>>>>,
      <<3, <<274, 38, 292, 54>>>>,
      <<3, <<274, 58, 292, 74>>>>>>

screens == <<<<2, <<0, 0, 319, 199>>>>>>

indexes_coords ==
    mouse \o buttons \o trees \o dead \o hit \o pictures \o fire \o borders
        \o wood \o second_buttons \o screens

\* |(index, (x1, y1, x2, y2))| (index, Rect::from_ranges(x1..x2, y1..y2)).
\* The subtractions of from_ranges are usize subtractions.
image_rect(index_coords) ==
    [index |-> index_coords[1],
     rect |-> from_ranges(index_coords[2][1], index_coords[2][3],
                          index_coords[2][2], index_coords[2][4]),
     underflow |-> \/ index_coords[2][3] < index_coords[2][1]
                   \/ index_coords[2][4] < index_coords[2][2]]

get_image_rects ==
    [k \in 1..Len(indexes_coords) |-> image_rect(indexes_coords[k])]

----------------------------------------------------------------------------
(* graf.dat: the codec.  A container file has 990,000 bytes and a          *)
(* composite 63,481 pixels, so the byte vectors and rasters of this part   *)
(* are not written out: each is kept as the description of the call that   *)
(* made it, and byte_at, image_pixel and item_pixel compute one byte or    *)
(* pixel of it the way the code computes the whole.                        *)
(*   bytes:     [kind |-> "file", content, len]       a caller's file      *)
(*              [kind |-> "saved", images]            save_images(images)  *)
(*   images:    [kind |-> "loaded", bytes]            load_images(bytes)   *)
(*              [kind |-> "built", content]           a caller's rasters   *)
(*              [kind |-> "composed", items]          to_images            *)
(*   catalogue: [kind |-> "catalogue", images]        load_from_images     *)
(*              [kind |-> "edited", base, item, color]                     *)
(*                                     items_mut()[item].fill(color)       *)

\* let w, h1, h2, h, first_half_size, second_half_size of load_images
graf_w == IMAGE_DIMENSIONS[1]

graf_h == FIRST_HALF_DIMENSIONS[2] + SECOND_HALF_DIMENSIONS[2]

first_half_size == graf_w * FIRST_HALF_DIMENSIONS[2]

second_half_size == graf_w * SECOND_HALF_DIMENSIONS[2]

\* A decoder that takes the pixels from the start of the segment, header
\* included.
offset1_without_header(i) == i * SEGMENT_SIZE

\* let offset1 of load_images
offset1(i) == i * SEGMENT_SIZE + HEADER_SIZE

\* A decoder that takes every second half from segment i + IMAGES.
second_half_segment_unswapped(i) == i + IMAGES

\* The segment that holds the second half of image i: `match i { 9 => 25,
\* 10 => 24, _ => i + IMAGES }`.
second_half_segment(i) ==
    IF i = 9 THEN 25 ELSE IF i = 10 THEN 24 ELSE i + IMAGES

\* let offset2 of load_images
offset2(i) == second_half_segment(i) * SEGMENT_SIZE + HEADER_SIZE

\* A reader that accepts a file of exactly FILE_SIZE bytes only.
read_exact_fails_unless_whole(len) == len # FILE_SIZE

\* reader.read_exact(&mut data).is_err(), data being FILE_SIZE bytes, for a
\* reader of `len` bytes.
read_exact_fails(len) == len < FILE_SIZE

\* let mut data = vec![0; FILE_SIZE]; reader.read_exact(&mut data): what
\* load_images decodes is the first FILE_SIZE bytes of the reader.
data_read(bytes) ==
    IF bytes.kind = "file" THEN [bytes EXCEPT !.len = FILE_SIZE] ELSE bytes

\* An encoder that writes the second halves in the order of the images.
saved_second_half_unswapped(i) == i

\* The image whose second half save_images writes at position i of its
\* second loop: `match i { 9 => 10, 10 => 9, _ => i }`.
saved_second_half(i) == IF i = 9 THEN 10 ELSE IF i = 10 THEN 9 ELSE i

\* What save_images writes for one image in its first loop and at one
\* position of its second loop: header, pixels, filler.  `data_len` is the
\* length of the image's data; the range index of the pixels can panic.
first_loop_chunks(image, data_len) ==
    <<[kind |-> "zeros", len |-> HEADER_SIZE],
      [kind |-> "data", image |-> image, from |-> 0,
       len |-> FIRST_HALF_DIMENSIONS[1] * FIRST_HALF_DIMENSIONS[2],
       ok |-> slice_ok(data_len, 0,
                  FIRST_HALF_DIMENSIONS[1] * FIRST_HALF_DIMENSIONS[2])],
      [kind |-> "zeros",
       len |-> SEGMENT_SIZE - HEADER_SIZE
                - FIRST_HALF_DIMENSIONS[1] * FIRST_HALF_DIMENSIONS[2]]>>

second_loop_chunks(i, data_len) ==
    <<[kind |-> "zeros", len |-> HEADER_SIZE],
      [kind |-> "data", image |-> saved_second_half(i),
       from |-> FIRST_HALF_DIMENSIONS[1] * FIRST_HALF_DIMENSIONS[2],
       len |-> data_len - FIRST_HALF_DIMENSIONS[1] * FIRST_HALF_DIMENSIONS[2],
       ok |-> slice_ok(data_len,
                  FIRST_HALF_DIMENSIONS[1] * FIRST_HALF_DIMENSIONS[2],
                  data_len)],
      [kind |-> "zeros",
       len |-> SEGMENT_SIZE - HEADER_SIZE
                - SECOND_HALF_DIMENSIONS[1] * SECOND_HALF_DIMENSIONS[2]]>>

\* The writes of save_images, in order, for IMAGES images of `data_len`
\* pixels each.
save_chunks(data_len) ==
    flat_map(0, IMAGES, LAMBDA i : first_loop_chunks(i, data_len))
        \o flat_map(0, IMAGES, LAMBDA i : second_loop_chunks(i, data_len))

\* The chunk that holds byte k of what was written, and k's place in it.
RECURSIVE chunk_at(_, _, _)
chunk_at(chunks, n, k) ==
    IF n > Len(chunks) THEN [found |-> FALSE]
    ELSE IF k < chunks[n].len
    THEN [found |-> TRUE, chunk |-> chunks[n], at |-> k]
    ELSE chunk_at(chunks, n + 1, k - chunks[n].len)

RECURSIVE chunks_len(_, _)
chunks_len(chunks, n) ==
    IF n > Len(chunks) THEN 0 ELSE chunks[n].len + chunks_len(chunks, n + 1)

\* The bytes of the input files: the repository's dummy_graf_dat_content
\* (segment i filled with i, segment 15 + i with i, 9 and 10 exchanged), and
\* two patterns that tell every offset from its neighbours and every
\* segment from the others.  Bytes past FILE_SIZE are 255.
graf_byte(content, k) ==
    IF k >= FILE_SIZE THEN U8_RANGE - 1
    ELSE IF content = "dummy"
    THEN LET i == k \div SEGMENT_SIZE
         IN  IF i < IMAGES THEN i
             ELSE IF i - IMAGES = 9 THEN 10
             ELSE IF i - IMAGES = 10 THEN 9 ELSE i - IMAGES
    ELSE IF content = "mod251" THEN k % 251
    ELSE (k + 1) % U8_RANGE

\* The pixels of the rasters a caller builds: those of empty(319, 199), the
\* test's expected_images (raster i filled with i), or a pattern that tells
\* the pixels apart.
built_pixel(content, i, p) ==
    IF content = "empty" THEN 0
    ELSE IF content = "filled" THEN i ELSE (p + 16 * i) % 251

\* The dimensions of every raster of a list of images: load_images and
\* to_images make them with empty(319, 199), and so does the caller.
images_width == IMAGE_DIMENSIONS[1]

images_height == IMAGE_DIMENSIONS[2]

images_data_len == images_width * images_height

\* The rect a three-argument blit(image, left, top) writes: the raster's
\* own size at (left, top).
blit_at_rect(image_width, image_height, left, top) ==
    Rect(left, top, image_width, image_height)

\* How far from the edges of the rects, of the halves and of the segments
\* the bytes and pixels looked at lie.
MaxMargin == 0


\* The columns or lines a..(b - 1) of a rect next to its two edges.
inside_edges(a, b) ==
    ({a + d : d \in 0..MaxMargin} \cup {b - 1 - d : d \in 0..MaxMargin})
        \cap a..(b - 1)

\* The corner pixels of entry k, of rect `rect`: <<entry, index into its
\* data>>.
item_probes_of(k, rect) ==
    {<<k, (y - rect.top) * rect.width + (x - rect.left)>> :
        x \in inside_edges(rect.left, beyond_right(rect)),
        y \in inside_edges(rect.top, beyond_bottom(rect))}

\* The pixels of the catalogue looked at: those in the corners of every
\* entry.
ItemProbes ==
    UNION {item_probes_of(k, get_image_rects[k].rect) :
              k \in 1..Len(get_image_rects)}

\* load_images: the place in `data` of pixel p of image i.  It copies
\* data[offset1..offset1 + first_half_size] to image_data[0..first_half_size]
\* and data[offset2..offset2 + second_half_size] behind it.
pixel_offset(i, p) ==
    IF p < first_half_size
    THEN offset1(i) + p
    ELSE offset2(i) + (p - first_half_size)

\* load_from_images: the pixel of images[e.index] that pixel q of
\* images[e.index].subimage(&e.rect) is copied from.
subimage_source(e, q) ==
    <<e.index,
      subimage_src_index(
          [from |-> subimage_src_line(e.rect, q \div e.rect.width)
                        * images_width], e.rect)
          + (q % e.rect.width)>>

\* to_images: the rect blit(item, rect.left, rect.top) writes for entry e,
\* the item having the dimensions of e.rect.
blit_rect(e) ==
    blit_at_rect(e.rect.width, e.rect.height, e.rect.left, e.rect.top)

\* A blit to `rect` of images[index] writes pixel p of images[i]: it writes
\* the lines rect.top.. from the lines 0.. of the item.
blit_covers(index, rect, i, p) ==
    /\ index = i
    /\ (p \div images_width) - rect.top \in 0..(rect.height - 1)
    /\ blit_dst_line(rect, (p \div images_width) - rect.top)
           = p \div images_width
    /\ p - blit_dst_index([from |-> (p \div images_width) * images_width],
                          rect) \in 0..(rect.width - 1)

\* The pixel of the item that a blit to `rect` copies to pixel p.
blit_source(rect, p) ==
    ((p \div images_width) - rect.top) * rect.width
        + (p - blit_dst_index([from |-> (p \div images_width) * images_width],
                              rect))

\* The largest of a set of entries, 0 if it is empty.
last_of(entries) ==
    IF entries = {} THEN 0
    ELSE CHOOSE w \in entries : \A o \in entries : o <= w

\* The smallest of a set of entries, 0 if it is empty.
first_of(entries) ==
    IF entries = {} THEN 0
    ELSE CHOOSE w \in entries : \A o \in entries : w <= o

\* A to_images in which the first blit that writes a pixel wins.
first_blit_of(ip) ==
    first_of({m \in 1..Len(get_image_rects) :
                 blit_covers(get_image_rects[m].index,
                             blit_rect(get_image_rects[m]), ip[1], ip[2])})

\* The last of the blits of to_images that writes pixel p of image i, 0 if
\* none does.
last_blit_of(ip) ==
    last_of({m \in 1..Len(get_image_rects) :
                blit_covers(get_image_rects[m].index,
                            blit_rect(get_image_rects[m]), ip[1], ip[2])})

\* The pixels of the images, <<image, index into its data>>, that hold the
\* catalogue pixels looked at.
CataloguePixels ==
    {subimage_source(get_image_rects[kq[1]], kq[2]) : kq \in ItemProbes}

\* last_blit_of, worked out once for the pixels looked at.
last_blits == [ip \in CataloguePixels |-> last_blit_of(ip)]

\* The writes of save_images for IMAGES images of 319 x 199.
saved_chunks == save_chunks(images_data_len)

\* The length of the bytes.
bytes_len(bytes) ==
    IF bytes.kind = "file" THEN bytes.len
    ELSE chunks_len(saved_chunks, 1)

\* A look at byte, pixel or catalogue pixel `at` of what a call made, `in`
\* describing the call; and what a look ends in.
Look(of, in, at) == [done |-> FALSE, of |-> of, in |-> in, at |-> at]

Seen(value) == [done |-> TRUE, value |-> value]

\* Byte k of what save_images wrote as chunk c: zero, or a pixel.
saved_byte(images, c) ==
    IF c.chunk.kind = "zeros" THEN Seen(0)
    ELSE Look("pixel", images, <<c.chunk.image, c.chunk.from + c.at>>)

\* Pixel p of image i of to_images, entry m being the last whose blit
\* writes it: zero (the images are empty before the first blit) or a pixel
\* of item m.
composed_pixel(items, m, p) ==
    IF m = 0 THEN Seen(0)
    ELSE Look("item", items,
              <<m, blit_source(blit_rect(get_image_rects[m]), p)>>)

\* Where a byte, a pixel or a catalogue pixel comes from, one call back:
\* a file, built rasters and fill give its value; save_images, load_images,
\* to_images and load_from_images copied it from where they read it.
source_of(x) ==
    IF x.of = "byte"
    THEN IF x.in.kind = "file"
         THEN Seen(IF x.at[1] < x.in.len
                   THEN graf_byte(x.in.content, x.at[1]) ELSE -1)
         ELSE saved_byte(x.in.images, chunk_at(saved_chunks, 1, x.at[1]))
    ELSE IF x.of = "pixel"
    THEN IF x.in.kind = "loaded"
         THEN Look("byte", x.in.bytes, <<pixel_offset(x.at[1], x.at[2])>>)
         ELSE IF x.in.kind = "built"
         THEN Seen(built_pixel(x.in.content, x.at[1], x.at[2]))
         ELSE composed_pixel(x.in.items,
                  IF x.at \in CataloguePixels
                  THEN last_blits[x.at] ELSE last_blit_of(x.at),
                  x.at[2])
    ELSE IF x.in.kind = "edited"
         THEN IF x.at[1] = x.in.item
              THEN Seen(x.in.color)
              ELSE Look("item", x.in.base, x.at)
         ELSE Look("pixel", x.in.images,
                   subimage_source(get_image_rects[x.at[1]], x.at[2]))

RECURSIVE value_of(_)

\* The value a look ends in.
value_of(x) == IF x.done THEN x.value ELSE value_of(source_of(x))

\* Byte k (0-based) of the bytes, -1 where they have none.
byte_at(bytes, k) == value_of(Look("byte", bytes, <<k>>))

\* Pixel p (0-based index into data) of image i (0-based) of the images.
image_pixel(images, i, p) == value_of(Look("pixel", images, <<i, p>>))

\* Pixel q (0-based index into data) of catalogue entry k (1-based).
item_pixel(items, k, q) == value_of(Look("item", items, <<k, q>>))

\* The rows a subimage of `rect` reads from a raster of width x height or a
\* blit writes to it all exist: line's assertion where there is one, the
\* range index of the row into data, and that of the columns into the row.
rows_in_bounds(width, height, rect, asserts) ==
    \A n \in 0..(rect.height - 1) :
        LET l == rect.top + n
            row == [from |-> l * width, to |-> (l + 1) * width]
        IN  /\ asserts => l < height
            /\ slice_ok(width * height, row.from, row.to)
            /\ row_range_ok(row, rect)

\* How load_images ends on a reader of `len` bytes: "none" on a short read,
\* "panic" if a range index of its loop fails, "ok".
load_images_status(len) ==
    IF read_exact_fails(len) THEN "none"
    ELSE IF \A i \in 0..(IMAGES - 1) :
               /\ slice_ok(FILE_SIZE, offset1(i), offset1(i) + first_half_size)
               /\ slice_ok(FILE_SIZE, offset2(i), offset2(i) + second_half_size)
               /\ slice_ok(graf_w * graf_h, 0, first_half_size)
               /\ slice_ok(graf_w * graf_h, first_half_size,
                           first_half_size + second_half_size)
    THEN "ok" ELSE "panic"

\* load_from_images on entry e: the index into `images` and the subimage.
subimage_entry_ok(e) ==
    /\ ~e.underflow
    /\ e.index < IMAGES
    /\ rows_in_bounds(images_width, images_height, e.rect, TRUE)

\* How load_from_images ends on IMAGES rasters of images_width x
\* images_height: its assertions, then every entry of the table.
load_from_images_status ==
    IF /\ images_width = IMAGE_DIMENSIONS[1]
       /\ images_height = IMAGE_DIMENSIONS[2]
       /\ \A k \in 1..Len(get_image_rects) :
             subimage_entry_ok(get_image_rects[k])
    THEN "ok" ELSE "panic"

\* to_images on entry e: the index into `images` and the blit.
blit_entry_ok(e) ==
    /\ e.index < IMAGES
    /\ rows_in_bounds(images_width, images_height, blit_rect(e), FALSE)

\* How to_images ends.
to_images_status ==
    IF \A k \in 1..Len(get_image_rects) : blit_entry_ok(get_image_rects[k])
    THEN "ok" ELSE "panic"

\* How save_images ends: the range indices of its writes.
save_images_status ==
    IF \A n \in 1..Len(saved_chunks) :
          saved_chunks[n].kind = "data" => saved_chunks[n].ok
    THEN "ok" ELSE "panic"

----------------------------------------------------------------------------
(* graf.dat: the calls.  A call is followed by further calls or by a look  *)
(* at one byte, pixel or catalogue pixel of what it made.                  *)

\* The most codec calls in a row.
MaxGrafCalls == 4

GrafContents == {"dummy", "mod251", "ramp"}

GrafLengths == {0, FILE_SIZE - 1, FILE_SIZE, FILE_SIZE + 1}

BuiltContents == {"filled", "pattern"}

\* The state of the graf.dat codec after a call.
GrafCall(op, status, calls, bytes, images, items) ==
    [op |-> op, status |-> status, calls |-> calls, bytes |-> bytes,
     images |-> images, items |-> items, at |-> <<>>, value |-> 0]

\* A caller holds the bytes of a file.
GrafInput ==
    /\ graf.op = "init"
    /\ \E content \in GrafContents, len \in GrafLengths :
        graf' = GrafCall("input", "ok", 0,
                    Some([kind |-> "file", content |-> content, len |-> len]),
                    None, None)
    /\ UNCHANGED <<img, other, buf, last, rgb, trip, pal, snd, font, game>>

\* A caller builds IMAGES rasters of 319 x 199.
BuildImages ==
    /\ graf.op = "init"
    /\ \E content \in BuiltContents :
        graf' = GrafCall("build", "ok", 0, None,
                    Some([kind |-> "built", content |-> content]), None)
    /\ UNCHANGED <<img, other, buf, last, rgb, trip, pal, snd, font, game>>

\* Grafdat::load_images(&bytes[..])
LoadImages ==
    /\ graf.op \in {"input", "save_images"}
    /\ graf.calls < MaxGrafCalls
    /\ LET status == load_images_status(bytes_len(unwrap(graf.bytes))) IN
       graf' = GrafCall("load_images", status, graf.calls + 1, graf.bytes,
                   IF status = "ok"
                   THEN Some([kind |-> "loaded",
                              bytes |-> data_read(unwrap(graf.bytes))])
                   ELSE None,
                   None)
    /\ UNCHANGED <<img, other, buf, last, rgb, trip, pal, snd, font, game>>

\* Grafdat::save_images(&images, &mut bytes)
SaveImages ==
    /\ graf.op \in {"build", "load_images"}
    /\ graf.status = "ok"
    /\ graf.calls < MaxGrafCalls
    /\ graf' = GrafCall("save_images", save_images_status, graf.calls + 1,
                   IF save_images_status = "ok"
                   THEN Some([kind |-> "saved", images |-> unwrap(graf.images)])
                   ELSE None,
                   graf.images, None)
    /\ UNCHANGED <<img, other, buf, last, rgb, trip, pal, snd, font, game>>

\* The coordinates next to the two edges a and b of a rect, of a half or of
\* a segment.
near_edges(a, b) ==
    {a + d : d \in (-MaxMargin - 1)..MaxMargin}
        \cup {b + d : d \in (-MaxMargin - 1)..MaxMargin}

\* The columns and lines of composite i looked at: those next to an edge of
\* a rect of the table, of the composite or of its first half.
GridXs(i) ==
    (near_edges(0, images_width)
        \cup UNION {near_edges(get_image_rects[k].rect.left,
                               beyond_right(get_image_rects[k].rect)) :
                       k \in {n \in 1..Len(get_image_rects) :
                                 get_image_rects[n].index = i}})
        \cap 0..(images_width - 1)

GridYs(i) ==
    (near_edges(0, images_height)
        \cup near_edges(0, FIRST_HALF_DIMENSIONS[2])
        \cup UNION {near_edges(get_image_rects[k].rect.top,
                               beyond_bottom(get_image_rects[k].rect)) :
                       k \in {n \in 1..Len(get_image_rects) :
                                 get_image_rects[n].index = i}})
        \cap 0..(images_height - 1)

\* The pixels looked at: <<image, index into its data>>.
PixelProbes ==
    UNION {{<<i, y * images_width + x>> : x \in GridXs(i), y \in GridYs(i)} :
              i \in 0..(IMAGES - 1)}

\* The bytes next to the edges of the segments and of their parts.
SegmentProbes ==
    {s * SEGMENT_SIZE + r :
        s \in 0..(SEGMENTS - 1),
        r \in near_edges(0, HEADER_SIZE)
                \cup near_edges(HEADER_SIZE + second_half_size,
                                HEADER_SIZE + first_half_size)
                \cup near_edges(SEGMENT_SIZE, SEGMENT_SIZE)}
        \cap 0..(FILE_SIZE - 1)

\* The bytes looked at: those next to the edges of the segments and of
\* their parts, and those that hold the pixels looked at.
ByteProbes ==
    SegmentProbes \cup {pixel_offset(ip[1], ip[2]) : ip \in PixelProbes}

\* The bytes of a saved catalogue looked at: those next to the edges of the
\* segments and of their parts, and those that hold the catalogue pixels
\* looked at.
CatalogueByteProbes ==
    SegmentProbes \cup {pixel_offset(ip[1], ip[2]) : ip \in CataloguePixels}

\* A look at one pixel of the images.
ProbePixel ==
    /\ graf.op \in {"build", "load_images"}
    /\ is_some(graf.images)
    /\ \E ip \in PixelProbes :
        graf' = [graf EXCEPT !.op = "pixel", !.at = ip,
                    !.value = image_pixel(unwrap(graf.images), ip[1], ip[2])]
    /\ UNCHANGED <<img, other, buf, last, rgb, trip, pal, snd, font, game>>

\* A look at one byte of the bytes written.
ProbeByte ==
    /\ graf.op = "save_images"
    /\ is_some(graf.bytes)
    /\ \E k \in ByteProbes :
        graf' = [graf EXCEPT !.op = "byte", !.at = <<k>>,
                    !.value = byte_at(unwrap(graf.bytes), k)]
    /\ UNCHANGED <<img, other, buf, last, rgb, trip, pal, snd, font, game>>

NextGrafImages ==
    \/ GrafInput
    \/ BuildImages
    \/ LoadImages
    \/ SaveImages
    \/ ProbePixel
    \/ ProbeByte

SpecGrafImages == Init /\ [][NextGrafImages]_vars

\* The images the bytes of a file decode to.
loaded_from_file(images) ==
    images.kind = "loaded" /\ images.bytes.kind = "file"

\* The images the bytes save_images wrote decode to.
loaded_from_saved(images) ==
    images.kind = "loaded" /\ images.bytes.kind = "saved"

\* C15: load_images on a 990,000-byte container returns 15 rasters of
\* 319 x 199; the first 319 * 100 pixels of raster i are the bytes at offset
\* 6 of segment i and the other 319 * 99 those at offset 6 of segment f(i),
\* f(i) = i + 15 except f(9) = 25 and f(10) = 24; so the file whose segment
\* i and segment 15 + i are filled with i, 24 and 25 exchanged, decodes to
\* rasters filled with their own index.
C15_LoadImagesDecodesTheSegments ==
    /\ (graf.op = "load_images" /\ bytes_len(unwrap(graf.bytes)) = 990000)
           => /\ graf.status = "ok"
              /\ IMAGES = 15
              /\ <<images_width, images_height>> = <<319, 199>>
    /\ (graf.op = "pixel" /\ loaded_from_file(unwrap(graf.images)))
           => LET i == graf.at[1]
                  p == graf.at[2]
                  f == IF i = 9 THEN 25 ELSE IF i = 10 THEN 24 ELSE i + 15
                  content == unwrap(graf.images).bytes.content
              IN  /\ graf.value =
                         graf_byte(content,
                             IF p < 319 * 100
                             THEN 33000 * i + 6 + p
                             ELSE 33000 * f + 6 + (p - 319 * 100))
                  /\ content = "dummy" => graf.value = i

\* The second half of raster 9 of the dummy file, which segment 25 holds.
C15_Witness ==
    /\ graf.op = "pixel"
    /\ loaded_from_file(unwrap(graf.images))
    /\ unwrap(graf.images).bytes.content = "dummy"
    /\ unwrap(graf.images).bytes.len = 990000
    /\ graf.at[1] = 9
    /\ graf.at[2] >= 319 * 100
    /\ graf.value = 9

\* C17: load_images(save_images(imgs)) == imgs for every 15 rasters of
\* 319 x 199; save_images writes exactly 990,000 bytes; and for a valid
\* file F, save_images(load_images(save_images(load_images(F)))) equals
\* save_images(load_images(F)) byte for byte.
C17_ImagesRoundTrip ==
    /\ graf.op = "save_images"
           => graf.status = "ok" /\ bytes_len(unwrap(graf.bytes)) = 990000
    /\ (graf.op = "load_images" /\ unwrap(graf.bytes).kind = "saved")
           => graf.status = "ok"
    /\ (graf.op = "pixel" /\ loaded_from_saved(unwrap(graf.images)))
           => graf.value = image_pixel(unwrap(graf.images).bytes.images,
                                       graf.at[1], graf.at[2])
    /\ (/\ graf.op = "byte"
        /\ loaded_from_saved(unwrap(graf.bytes).images)
        /\ loaded_from_file(unwrap(graf.bytes).images.bytes.images))
           => graf.value = byte_at(unwrap(graf.bytes).images.bytes, graf.at[1])

\* A pixel of the second half of raster 9 of built rasters, written and
\* read back.
C17_Witness ==
    /\ graf.op = "pixel"
    /\ loaded_from_saved(unwrap(graf.images))
    /\ unwrap(graf.images).bytes.images.kind = "built"
    /\ unwrap(graf.images).bytes.images.content = "pattern"
    /\ graf.at[1] = 9
    /\ graf.at[2] >= 319 * 100
    /\ graf.value # 0

----------------------------------------------------------------------------
(* graf.dat: the catalogue                                                 *)

\* The entries a caller edits: a mouse cursor no other rect touches, a
\* placeholder of no pixels, the one-pixel hole, a border, the main menu.
EditedItems == {1, 29, 186, 348, 359}

\* The colors a caller fills an entry with.
EditColors == {U8_RANGE - 1}

\* How Grafdat::load ends on a reader of `len` bytes.
Grafdat_load_status(len) ==
    IF load_images_status(len) # "ok" THEN load_images_status(len)
    ELSE load_from_images_status

\* How Grafdat::save ends.
Grafdat_save_status ==
    IF to_images_status # "ok" THEN to_images_status ELSE save_images_status

\* Grafdat::empty()
GrafdatEmpty ==
    /\ graf.op = "init"
    /\ graf' = GrafCall("empty", load_from_images_status, 0, None, None,
                   IF load_from_images_status = "ok"
                   THEN Some([kind |-> "catalogue",
                              images |-> [kind |-> "built",
                                          content |-> "empty"]])
                   ELSE None)
    /\ UNCHANGED <<img, other, buf, last, rgb, trip, pal, snd, font, game>>

\* Grafdat::load(&bytes[..])
GrafdatLoad ==
    /\ graf.op \in {"input", "save"}
    /\ graf.calls < MaxGrafCalls
    /\ LET status == Grafdat_load_status(bytes_len(unwrap(graf.bytes))) IN
       graf' = GrafCall("load", status, graf.calls + 1, graf.bytes, None,
                   IF status = "ok"
                   THEN Some([kind |-> "catalogue",
                              images |-> [kind |-> "loaded",
                                          bytes |->
                                              data_read(unwrap(graf.bytes))]])
                   ELSE None)
    /\ UNCHANGED <<img, other, buf, last, rgb, trip, pal, snd, font, game>>

\* grafdat.items_mut()[k - 1].fill(color), on a catalogue just made.
ItemsMutFill ==
    /\ graf.op \in {"empty", "load"}
    /\ graf.status = "ok"
    /\ graf.calls < 2
    /\ \E k \in EditedItems, color \in EditColors :
        graf' = GrafCall("items_mut", "ok", graf.calls + 1, None, None,
                    Some([kind |-> "edited", item |-> k, color |-> color,
                          base |-> unwrap(graf.items)]))
    /\ UNCHANGED <<img, other, buf, last, rgb, trip, pal, snd, font, game>>

\* grafdat.save(&mut bytes)
GrafdatSave ==
    /\ graf.op \in {"empty", "load", "items_mut"}
    /\ graf.status = "ok"
    /\ graf.calls < MaxGrafCalls
    /\ graf' = GrafCall("save", Grafdat_save_status, graf.calls + 1,
                   IF Grafdat_save_status = "ok"
                   THEN Some([kind |-> "saved",
                              images |-> [kind |-> "composed",
                                          items |-> unwrap(graf.items)]])
                   ELSE None,
                   None, graf.items)
    /\ UNCHANGED <<img, other, buf, last, rgb, trip, pal, snd, font, game>>

\* A look at one pixel of one entry of the catalogue.
ProbeItem ==
    /\ graf.op \in {"empty", "load", "items_mut"}
    /\ graf.status = "ok"
    /\ \E kq \in ItemProbes :
        graf' = [graf EXCEPT !.op = "item", !.at = kq,
                    !.value = item_pixel(unwrap(graf.items), kq[1], kq[2])]
    /\ UNCHANGED <<img, other, buf, last, rgb, trip, pal, snd, font, game>>

\* A look at one byte of the bytes Grafdat::save wrote.
ProbeCatalogueByte ==
    /\ graf.op = "save"
    /\ graf.status = "ok"
    /\ \E k \in CatalogueByteProbes :
        graf' = [graf EXCEPT !.op = "byte", !.at = <<k>>,
                    !.value = byte_at(unwrap(graf.bytes), k)]
    /\ UNCHANGED <<img, other, buf, last, rgb, trip, pal, snd, font, game>>

NextGrafdat ==
    \/ GrafInput
    \/ LoadImages
    \/ ProbePixel
    \/ GrafdatEmpty
    \/ GrafdatLoad
    \/ ItemsMutFill
    \/ GrafdatSave
    \/ ProbeItem
    \/ ProbeCatalogueByte

SpecGrafdat == Init /\ [][NextGrafdat]_vars

\* The catalogue the bytes of a file decode to.
catalogue_from_file(items) ==
    items.kind = "catalogue" /\ loaded_from_file(items.images)

\* The catalogue the bytes Grafdat::save wrote decode to.
catalogue_from_saved(items) ==
    /\ items.kind = "catalogue"
    /\ loaded_from_saved(items.images)
    /\ items.images.bytes.images.kind = "composed"

\* The catalogue that was saved to the bytes a catalogue was decoded from.
saved_catalogue(items) == items.images.bytes.images.items

\* C16: Grafdat::load and Grafdat::load_images return absent exactly when
\* the reader supplies fewer than 990,000 bytes; on every longer input they
\* return a result without panicking, every entry of the rect table naming
\* a composite index < 15 and a rect inside 319 x 199; and the bytes after
\* the first 990,000 are ignored: every pixel of the result is one of the
\* first 990,000 bytes of the reader.
C16_AbsentExactlyOnShortRead ==
    /\ graf.op \in {"load", "load_images"}
           => /\ graf.status \in {"none", "ok"}
              /\ graf.status = "none"
                     <=> bytes_len(unwrap(graf.bytes)) < 990000
    /\ (graf.op = "load" /\ graf.status = "ok")
           => \A k \in 1..Len(get_image_rects) :
                  /\ get_image_rects[k].index < 15
                  /\ ~get_image_rects[k].underflow
                  /\ beyond_right(get_image_rects[k].rect) <= 319
                  /\ beyond_bottom(get_image_rects[k].rect) <= 199
    /\ (graf.op = "pixel" /\ unwrap(graf.bytes).kind = "file")
           => LET k == pixel_offset(graf.at[1], graf.at[2])
              IN  /\ k \in 0..(990000 - 1)
                  /\ graf.value = graf_byte(unwrap(graf.bytes).content, k)
    /\ (graf.op = "item" /\ catalogue_from_file(unwrap(graf.items)))
           => LET k == pixel_offset(
                           get_image_rects[graf.at[1]].index,
                           subimage_source(get_image_rects[graf.at[1]],
                                           graf.at[2])[2])
              IN  /\ k \in 0..(990000 - 1)
                  /\ graf.value =
                         graf_byte(unwrap(graf.items).images.bytes.content, k)

\* A pixel of the catalogue Grafdat::load made of a file of 990,001 bytes.
C16_Witness ==
    /\ graf.op = "item"
    /\ graf.status = "ok"
    /\ catalogue_from_file(unwrap(graf.items))
    /\ unwrap(graf.bytes).len = 990001
    /\ unwrap(graf.items).images.bytes.content = "ramp"
    /\ graf.value # 0

\* C18: for a file F of at least 990,000 bytes, g1 = Grafdat::load(F),
\* s1 = g1.save(), g2 = Grafdat::load(s1), s2 = g2.save(): every entry of g2
\* equals that of g1, and s2 equals s1 byte for byte.
C18_CatalogueFixedPoint ==
    /\ (graf.op \in {"load", "save"} /\ bytes_len(unwrap(graf.bytes)) >= 990000)
           => graf.status = "ok"
    /\ (/\ graf.op = "item"
        /\ catalogue_from_saved(unwrap(graf.items))
        /\ catalogue_from_file(saved_catalogue(unwrap(graf.items))))
           => graf.value = item_pixel(saved_catalogue(unwrap(graf.items)),
                                      graf.at[1], graf.at[2])
    /\ (/\ graf.op = "byte"
        /\ unwrap(graf.bytes).images.kind = "composed"
        /\ catalogue_from_saved(unwrap(graf.bytes).images.items)
        /\ catalogue_from_file(
               saved_catalogue(unwrap(graf.bytes).images.items)))
           => graf.value = byte_at(unwrap(graf.bytes).images.items.images.bytes,
                                   graf.at[1])

\* A byte of s2 that is not zero.
C18_Witness ==
    /\ graf.op = "byte"
    /\ unwrap(graf.bytes).images.kind = "composed"
    /\ catalogue_from_saved(unwrap(graf.bytes).images.items)
    /\ catalogue_from_file(saved_catalogue(unwrap(graf.bytes).images.items))
    /\ graf.value # 0

\* C19: for every Grafdat g, one with entries edited through items_mut
\* included, every entry of Grafdat::load(g.save()) equals that of g.
C19_EveryCatalogueSurvivesSaveAndLoad ==
    (graf.op = "item" /\ catalogue_from_saved(unwrap(graf.items)))
        => graf.value = item_pixel(saved_catalogue(unwrap(graf.items)),
                                   graf.at[1], graf.at[2])

\* What holds of an edited catalogue: a pixel of an entry survives
\* Grafdat::save and Grafdat::load where no later entry of the table
\* claims the place of the composite it is taken from.
PixelsWrittenLastSurvive ==
    (/\ graf.op = "item"
     /\ catalogue_from_saved(unwrap(graf.items))
     /\ last_blits[subimage_source(get_image_rects[graf.at[1]], graf.at[2])]
            = graf.at[1])
        => graf.value = item_pixel(saved_catalogue(unwrap(graf.items)),
                                   graf.at[1], graf.at[2])

----------------------------------------------------------------------------
(* to_images (src/src/grafdat.rs).                                         *)

\* The pixels of the composites looked at: those that hold the corners of
\* the entries a caller edits, and the four corners of every composite.
ComposedProbes ==
    {subimage_source(get_image_rects[kq[1]], kq[2]) :
        kq \in {e \in ItemProbes : e[1] \in EditedItems}}
        \cup {<<i, y * images_width + x>> :
                 i \in 0..(IMAGES - 1),
                 x \in {0, images_width - 1}, y \in {0, images_height - 1}}

\* grafdat.to_images()
ToImages ==
    /\ graf.op \in {"empty", "load", "items_mut"}
    /\ graf.status = "ok"
    /\ graf' = GrafCall("to_images", to_images_status, graf.calls, None,
                   IF to_images_status = "ok"
                   THEN Some([kind |-> "composed",
                              items |-> unwrap(graf.items)])
                   ELSE None,
                   graf.items)
    /\ UNCHANGED <<img, other, buf, last, rgb, trip, pal, snd, font, game>>

\* A look at one pixel of the composites to_images made.
ProbeComposedPixel ==
    /\ graf.op = "to_images"
    /\ graf.status = "ok"
    /\ \E ip \in ComposedProbes :
        graf' = [graf EXCEPT !.op = "composed_pixel", !.at = ip,
                    !.value = image_pixel(unwrap(graf.images), ip[1], ip[2])]
    /\ UNCHANGED <<img, other, buf, last, rgb, trip, pal, snd, font, game>>

\* A look at the byte of the bytes Grafdat::save wrote that holds one of
\* the pixels looked at.
ProbeCompositeByte ==
    /\ graf.op = "save"
    /\ graf.status = "ok"
    /\ \E ip \in ComposedProbes :
        graf' = [graf EXCEPT !.op = "byte",
                    !.at = <<pixel_offset(ip[1], ip[2])>>,
                    !.value = byte_at(unwrap(graf.bytes),
                                      pixel_offset(ip[1], ip[2]))]
    /\ UNCHANGED <<img, other, buf, last, rgb, trip, pal, snd, font, game>>

NextToImages ==
    \/ GrafInput
    \/ GrafdatEmpty
    \/ GrafdatLoad
    \/ ItemsMutFill
    \/ ToImages
    \/ ProbeComposedPixel
    \/ GrafdatSave
    \/ ProbeCompositeByte

SpecToImages == Init /\ [][NextToImages]_vars

\* The entries of the table whose rect, in composite i, holds the pixel at
\* column x of line y.
entries_holding(i, x, y) ==
    {m \in 1..Len(get_image_rects) :
        /\ get_image_rects[m].index = i
        /\ x \in get_image_rects[m].rect.left
                     ..(beyond_right(get_image_rects[m].rect) - 1)
        /\ y \in get_image_rects[m].rect.top
                     ..(beyond_bottom(get_image_rects[m].rect) - 1)}

\* The composites an entry of the table refers to.
CatalogueComposites == {2, 3, 4, 7}

\* C29: to_images rebuilds the composites from the catalogue only: a pixel
\* no rect holds is 0, a pixel some rect holds has the value of the last
\* entry, in table order, whose rect holds it; the composites no entry
\* refers to, all but 2, 3, 4 and 7, are 0 throughout, so what a file has
\* in them is gone after load and save.
C29_CompositesComeFromTheCatalogue ==
    /\ graf.op = "composed_pixel" =>
          LET i == graf.at[1]
              x == graf.at[2] % images_width
              y == graf.at[2] \div images_width
              m == last_of(entries_holding(i, x, y))
          IN  /\ graf.value =
                    IF m = 0 THEN 0
                    ELSE item_pixel(unwrap(graf.items), m,
                             (y - get_image_rects[m].rect.top)
                                 * get_image_rects[m].rect.width
                             + (x - get_image_rects[m].rect.left))
              /\ i \notin CatalogueComposites => m = 0 /\ graf.value = 0
    /\ {get_image_rects[m].index : m \in 1..Len(get_image_rects)}
          = CatalogueComposites
    /\ graf.op = "byte" =>
          \A i \in (0..(IMAGES - 1)) \ CatalogueComposites :
              \A p \in {0, images_data_len - 1} :
                  graf.at[1] = pixel_offset(i, p) => graf.value = 0

\* A pixel of composite 2, 3, 4 or 7 that two entries hold was looked at:
\* the earlier entry was filled with a color, and the pixel has that of
\* the later one.
C29_Witness ==
    /\ graf.op = "composed_pixel"
    /\ unwrap(graf.items).kind = "edited"
    /\ unwrap(graf.items).item
           \in entries_holding(graf.at[1], graf.at[2] % images_width,
                               graf.at[2] \div images_width)
    /\ unwrap(graf.items).item
           < last_of(entries_holding(graf.at[1], graf.at[2] % images_width,
                                     graf.at[2] \div images_width))
    /\ graf.value # unwrap(graf.items).color

\* The first pixel of composite 0, which the file had not 0, is 0 in the
\* bytes written after the load.
FileContentsAreDiscarded ==
    /\ graf.op = "byte"
    /\ graf.calls = 2
    /\ graf.at[1] = pixel_offset(0, 0)
    /\ unwrap(graf.bytes).images.items.kind = "catalogue"
    /\ byte_at(unwrap(graf.bytes).images.items.images.bytes, graf.at[1]) # 0
    /\ graf.value = 0

\* A pixel of a composite that no entry holds was looked at.
PixelNoEntryHolds ==
    /\ graf.op = "composed_pixel"
    /\ graf.at[1] \in CatalogueComposites
    /\ entries_holding(graf.at[1], graf.at[2] % images_width,
                       graf.at[2] \div images_width) = {}

----------------------------------------------------------------------------
(* font.dat (src/src/fontdat.rs).                                          *)

ROWS == 3

CHARACTERS == 91

CHARACTER_HEIGHT == 13

\* Where the rows start, (x, y).
ROW_OFFSETS == <<<<7, 8>>, <<8, 32>>, <<7, 56>>>>

ROW_CHARACTERS == <<33, 31, 27>>

MINIMUM_IMAGE_DIMENSIONS == <<223, 69>>

CHARACTER_WIDTHS ==
    <<4, 2, 4, 6, 6, 6, 6, 6, 4, 4, 6, 6, 2, 4, 2, 6, 6, 5, 6, 6, 6, 6, 6, 6,
      6, 6, 2, 2, 8, 6, 8, 6, 7,
      8, 7, 7, 7, 6, 6, 8, 7, 2, 5, 7, 6, 8, 7, 8, 6, 8, 7, 7, 6, 7, 8, 11,
      7, 8, 7, 7, 7, 7, 6, 7,
      4, 6, 6, 6, 6, 6, 4, 6, 6, 2, 2, 5, 2, 8, 6, 6, 6, 6, 4, 6, 3, 6, 6, 10,
      6, 6, 6>>

CHARACTER_X_POSITIONS ==
    <<7, 11, 13, 17, 23, 29, 35, 41, 47, 51, 55, 61, 67, 69, 73, 75, 81, 87,
      92, 98, 104, 110, 116, 122, 128, 134, 140, 142, 144, 152, 158, 166, 172,
      8, 16, 23, 30, 37, 43, 49, 57, 64, 66, 71, 78, 84, 92, 99, 107, 113,
      121, 128, 135, 141, 148, 156, 167, 174, 182, 189, 196, 203, 210, 216,
      7, 11, 17, 23, 29, 35, 41, 45, 51, 57, 59, 61, 66, 68, 76, 82, 88, 94,
      100, 104, 110, 113, 119, 125, 135, 141, 147>>

\* The row of a character, for a test that takes the second row's count
\* for the end of the second row.
character_line_short_second_row(character) ==
    IF character < ROW_CHARACTERS[1] THEN 0
    ELSE IF character < ROW_CHARACTERS[2] THEN 1
    ELSE 2

\* The row (0-based) character_rect finds for a character.
character_line(character) ==
    IF character < ROW_CHARACTERS[1] THEN 0
    ELSE IF character < ROW_CHARACTERS[1] + ROW_CHARACTERS[2] THEN 1
    ELSE 2

\* character_rect, for character < CHARACTERS (0-based).
character_rect(character) ==
    LET x == CHARACTER_X_POSITIONS[character + 1]
        y == ROW_OFFSETS[character_line(character) + 1][2]
    IN  from_ranges(x, x + CHARACTER_WIDTHS[character + 1],
                    y, y + CHARACTER_HEIGHT)

\* (a.0, a.1) < (b.0, b.1): tuples compare lexicographically.
tuple_less(a, b) == a[1] < b[1] \/ (a[1] = b[1] /\ a[2] < b[2])

Fontdat(glyphs) == [glyphs |-> glyphs]

\* The subimage of every character's rect, in the order of the loop of
\* Fontdat::load.
cut_glyphs(image) ==
    [c \in 1..CHARACTERS |-> subimage(image, character_rect(c - 1))]

\* How the loop of Fontdat::load ends: a panic of one subimage ends the
\* loop and the load.
load_glyphs(cut) ==
    IF \E c \in 1..CHARACTERS : cut[c].panicked
    THEN [status |-> "panic", fontdat |-> None]
    ELSE [status |-> "ok",
          fontdat |-> Some(Fontdat([c \in 1..CHARACTERS |->
                                       unwrap(cut[c].image)]))]

\* Fontdat::load
Fontdat_load(reader) ==
    LET image == Image13h_load(reader) IN
    IF ~is_some(image) THEN [status |-> "none", fontdat |-> None]
    ELSE IF tuple_less(<<unwrap(image).width, unwrap(image).height>>,
                       MINIMUM_IMAGE_DIMENSIONS)
    THEN [status |-> "none", fontdat |-> None]
    ELSE load_glyphs(cut_glyphs(unwrap(image)))

\* An empty font whose glyphs have width and height exchanged.
Fontdat_empty_transposed ==
    Fontdat([c \in 1..CHARACTERS |->
                empty(character_rect(c - 1).height,
                      character_rect(c - 1).width)])

\* Fontdat::empty
Fontdat_empty ==
    Fontdat([c \in 1..CHARACTERS |->
                empty(character_rect(c - 1).width,
                      character_rect(c - 1).height)])

\* Fontdat::glyph
glyph(self, character) ==
    IF character < Len(self.glyphs)
    THEN [panicked |-> FALSE, image |-> Some(self.glyphs[character + 1])]
    ELSE [panicked |-> TRUE, image |-> None]

\* A save that blits every glyph at (rect.top, rect.left).
glyph_blit_rect_transposed(character) ==
    blit_at_rect(character_rect(character).width,
                 character_rect(character).height,
                 character_rect(character).top,
                 character_rect(character).left)

\* save: the rect blit(&self.glyphs[character], rect.left, rect.top)
\* writes, the glyph having the dimensions of its rect.
glyph_blit_rect(character) ==
    blit_at_rect(character_rect(character).width,
                 character_rect(character).height,
                 character_rect(character).left,
                 character_rect(character).top)

\* A blit to `rect` writes line y of the raster: one of its loop's
\* iterations has y for its dst_line.
glyph_blit_covers_line(rect, y) ==
    /\ y - rect.top \in 0..(rect.height - 1)
    /\ blit_dst_line(rect, y - rect.top) = y

\* A blit to `rect` writes column x of the lines it writes.
glyph_blit_covers_column(rect, x) ==
    x - blit_dst_index([from |-> 0], rect) \in 0..(rect.width - 1)

\* The pixel of the glyph (0-based index into its data) that a blit to
\* `rect` copies to pixel p of a raster `width` wide.
glyph_blit_source(rect, width, p) ==
    ((p \div width) - rect.top) * rect.width
        + (p - blit_dst_index([from |-> (p \div width) * width], rect))

\* The blits of save, as character + 1, that write each line and each
\* column of its raster.
line_glyph_blits ==
    [y \in 0..(MINIMUM_IMAGE_DIMENSIONS[2] - 1) |->
        {c \in 1..CHARACTERS :
            glyph_blit_covers_line(glyph_blit_rect(c - 1), y)}]

column_glyph_blits ==
    [x \in 0..(MINIMUM_IMAGE_DIMENSIONS[1] - 1) |->
        {c \in 1..CHARACTERS :
            glyph_blit_covers_column(glyph_blit_rect(c - 1), x)}]

\* The last of the blits of save that writes pixel p of its raster, as
\* character + 1; 0 if none does.
last_glyph_blits ==
    [p \in 0..(MINIMUM_IMAGE_DIMENSIONS[1] * MINIMUM_IMAGE_DIMENSIONS[2] - 1)
        |-> last_of(line_glyph_blits[p \div MINIMUM_IMAGE_DIMENSIONS[1]]
                \cap column_glyph_blits[p % MINIMUM_IMAGE_DIMENSIONS[1]])]

\* The raster save builds: empty, then every glyph blitted at its rect in
\* the order of the characters.
saved_font_image(self) ==
    Image13h(MINIMUM_IMAGE_DIMENSIONS[1], MINIMUM_IMAGE_DIMENSIONS[2],
        [q \in 1..(MINIMUM_IMAGE_DIMENSIONS[1] * MINIMUM_IMAGE_DIMENSIONS[2])
            |-> IF last_glyph_blits[q - 1] = 0 THEN 0
                ELSE self.glyphs[last_glyph_blits[q - 1]].data[
                        glyph_blit_source(
                            glyph_blit_rect(last_glyph_blits[q - 1] - 1),
                            MINIMUM_IMAGE_DIMENSIONS[1], q - 1) + 1]])

\* Fontdat::save, into an empty writer.
Fontdat_save(self) == Image13h_save(saved_font_image(self))

\* The dimensions of the rasters a caller holds: the smallest that holds a
\* font, larger ones, and ones too narrow, too low or both.
FontDimensions ==
    {<<223, 69>>, <<224, 70>>, <<223, 70>>, <<223, 68>>, <<222, 69>>,
     <<222, 100>>, <<300, 10>>, <<224, 1>>, <<1, 1>>}

FontContents == {"dummy", "zeros", "noise", "glyph_noise"}

\* The characters, as character + 1, whose rects hold each line and each
\* column.
characters_on_line ==
    [y \in 0..(MINIMUM_IMAGE_DIMENSIONS[2] - 1) |->
        {c \in 1..CHARACTERS :
            y \in character_rect(c - 1).top
                      ..(beyond_bottom(character_rect(c - 1)) - 1)}]

characters_in_column ==
    [x \in 0..(MINIMUM_IMAGE_DIMENSIONS[1] - 1) |->
        {c \in 1..CHARACTERS :
            x \in character_rect(c - 1).left
                      ..(beyond_right(character_rect(c - 1)) - 1)}]

\* The character whose rect holds pixel (x, y), as character + 1; 0
\* outside every rect.
character_at(x, y) ==
    IF x < MINIMUM_IMAGE_DIMENSIONS[1] /\ y < MINIMUM_IMAGE_DIMENSIONS[2]
    THEN last_of(characters_on_line[y] \cap characters_in_column[x])
    ELSE 0

\* Pixel (x, y) of a raster: that of dummy_font.dat, every character
\* filled with its index + 100 and 0 elsewhere; all 0; no pixel 0; or no
\* pixel 0 inside the rects and 0 elsewhere.
atlas_pixel(content, x, y) ==
    IF content = "dummy"
    THEN (IF character_at(x, y) = 0 THEN 0 ELSE 100 + character_at(x, y) - 1)
    ELSE IF content = "zeros" THEN 0
    ELSE IF content = "noise" THEN 1 + ((x + 7 * y) % 251)
    ELSE IF character_at(x, y) = 0 THEN 0 ELSE 1 + ((x + 7 * y) % 251)

\* The bytes of a raster file, `missing` bytes short.
font_file(width, height, content, missing) ==
    to_le_bytes_u16(width) \o to_le_bytes_u16(height) \o <<1, 0>>
        \o [q \in 1..(width * height - missing) |->
               atlas_pixel(content, (q - 1) % width, (q - 1) \div width)]

\* A caller holds the bytes of a raster file.
FontdatInput ==
    /\ font.op = "init"
    /\ \E d \in FontDimensions, content \in FontContents, missing \in 0..1 :
        font' = [op |-> "input", width |-> d[1], height |-> d[2],
                 content |-> content, missing |-> missing,
                 bytes |-> font_file(d[1], d[2], content, missing)]
    /\ UNCHANGED <<img, other, buf, last, rgb, trip, pal, snd, graf, game>>

\* Fontdat::load(&bytes[..])
FontdatLoad ==
    /\ font.op = "input"
    /\ LET r == Fontdat_load(font.bytes) IN
       font' = [op |-> "load", width |-> font.width, height |-> font.height,
                content |-> font.content, missing |-> font.missing,
                bytes |-> font.bytes, status |-> r.status,
                fontdat |-> r.fontdat]
    /\ UNCHANGED <<img, other, buf, last, rgb, trip, pal, snd, graf, game>>

\* Fontdat::empty()
FontdatEmpty ==
    /\ font.op = "init"
    /\ font' = [op |-> "empty", status |-> "ok",
                fontdat |-> Some(Fontdat_empty)]
    /\ UNCHANGED <<img, other, buf, last, rgb, trip, pal, snd, graf, game>>

\* for i in 0..CHARACTERS { fontdat.glyph_mut(i).fill(100 + i as u8) }
FillGlyphs ==
    /\ font.op = "empty"
    /\ font' = [op |-> "fill", status |-> "ok",
                fontdat |->
                    Some(Fontdat([c \in 1..CHARACTERS |->
                        fill(unwrap(font.fontdat).glyphs[c],
                             100 + ((c - 1) % U8_RANGE))]))]
    /\ UNCHANGED <<img, other, buf, last, rgb, trip, pal, snd, graf, game>>

\* fontdat.glyph(character)
Glyph ==
    /\ font.op \in {"load", "empty", "fill"}
    /\ font.status = "ok"
    /\ \E character \in 0..CHARACTERS :
        LET r == glyph(unwrap(font.fontdat), character) IN
        font' = [op |-> "glyph", from |-> font.op, character |-> character,
                 panicked |-> r.panicked, image |-> r.image]
    /\ UNCHANGED <<img, other, buf, last, rgb, trip, pal, snd, graf, game>>

\* fontdat.save(&mut buf)
FontdatSave ==
    /\ font.op \in {"load", "empty", "fill"}
    /\ font.status = "ok"
    /\ font' = [op |-> "save", from |-> font,
                out |-> Fontdat_save(unwrap(font.fontdat))]
    /\ UNCHANGED <<img, other, buf, last, rgb, trip, pal, snd, graf, game>>

\* Fontdat::load(&buf[..]) of the bytes a save wrote.
FontdatLoadSaved ==
    /\ font.op = "save"
    /\ LET r == Fontdat_load(font.out) IN
       font' = [op |-> "load_saved", from |-> font.from, out |-> font.out,
                status |-> r.status, fontdat |-> r.fontdat]
    /\ UNCHANGED <<img, other, buf, last, rgb, trip, pal, snd, graf, game>>

NextFont ==
    \/ FontdatInput
    \/ FontdatLoad
    \/ FontdatEmpty
    \/ FillGlyphs
    \/ Glyph
    \/ FontdatSave
    \/ FontdatLoadSaved

SpecFont == Init /\ [][NextFont]_vars

\* C24: Fontdat::load returns None, without panicking, for every loadable
\* raster with width < 223 or height < 69, and a glyph set for every
\* raster with width >= 223 and height >= 69.
C24_TooSmallRasterIsAbsent ==
    (font.op = "load" /\ font.missing = 0) =>
        IF font.width < MINIMUM_IMAGE_DIMENSIONS[1]
               \/ font.height < MINIMUM_IMAGE_DIMENSIONS[2]
        THEN font.status = "none" /\ font.fontdat = None
        ELSE font.status = "ok" /\ is_some(font.fontdat)

\* The raster of 300 x 10 was loaded and the loop ran past its last line.
WideLowRasterPanics ==
    /\ font.op = "load"
    /\ font.width = 300
    /\ font.height = 10
    /\ font.missing = 0
    /\ font.status = "panic"

\* What holds of load instead: None where width < 223, or width = 223 and
\* height < 69; a panic where width > 223 and height < 69; else glyphs.
LoadComparesLexicographically ==
    (font.op = "load" /\ font.missing = 0) =>
        font.status =
            IF font.width < MINIMUM_IMAGE_DIMENSIONS[1] THEN "none"
            ELSE IF font.height >= MINIMUM_IMAGE_DIMENSIONS[2] THEN "ok"
            ELSE IF font.width = MINIMUM_IMAGE_DIMENSIONS[1] THEN "none"
            ELSE "panic"

\* Two rects share no pixel.
rects_disjoint(a, b) ==
    \/ beyond_right(a) <= b.left
    \/ beyond_right(b) <= a.left
    \/ beyond_bottom(a) <= b.top
    \/ beyond_bottom(b) <= a.top

\* The first character of every row, with the column and line documented
\* for it.
DocumentedRows ==
    {[first |-> 0, characters |-> 33, column |-> 7, line |-> 8],
     [first |-> 33, characters |-> 31, column |-> 8, line |-> 32],
     [first |-> 64, characters |-> 27, column |-> 7, line |-> 56]}

\* C28: the 91 rects of character_rect are pairwise disjoint; characters
\* 0..32 lie on the row of line 8, 33..63 on that of line 32, 64..90 on
\* that of line 56; in a row every character starts where the one before
\* it ends, the first at column 7, 8, 7; and the rects' bounding box from
\* (0, 0) is 223 wide and 69 high, MINIMUM_IMAGE_DIMENSIONS.
C28_RectsTileTheRows ==
    (font.op = "glyph" /\ ~font.panicked) =>
        LET c == font.character
            rect == character_rect(c)
            row == CHOOSE r \in DocumentedRows :
                       c - r.first \in 0..(r.characters - 1)
        IN  /\ unwrap(font.image).width = rect.width
            /\ unwrap(font.image).height = rect.height
            /\ \A d \in 0..(CHARACTERS - 1) :
                  d # c => rects_disjoint(rect, character_rect(d))
            /\ rect.top = row.line
            /\ rect.height = 13
            /\ rect.width = CHARACTER_WIDTHS[c + 1]
            /\ rect.left = IF c = row.first THEN row.column
                           ELSE beyond_right(character_rect(c - 1))
            /\ beyond_right(rect) <= 223
            /\ beyond_bottom(rect) <= 69
            /\ \E d \in 0..(CHARACTERS - 1) :
                  beyond_right(character_rect(d)) = 223
            /\ \E d \in 0..(CHARACTERS - 1) :
                  beyond_bottom(character_rect(d)) = 69
            /\ MINIMUM_IMAGE_DIMENSIONS = <<223, 69>>
            /\ \A r \in DocumentedRows :
                  r.first + r.characters <= CHARACTERS

\* The glyph of the last character of the second row, which ends in the
\* last column, was looked up.
C28_Witness ==
    /\ font.op = "glyph"
    /\ font.character = 63
    /\ ~font.panicked
    /\ beyond_right(character_rect(63)) = 223
    /\ character_rect(63).top = 32

\* C26: every Fontdat that load or empty makes holds exactly 91 glyphs,
\* glyph i being CHARACTER_WIDTHS[i] wide and 13 high; every pixel of
\* empty() is 0, so empty() equals the font loaded from the all-zero
\* raster of 223 x 69.
C26_GlyphsHaveTableDimensions ==
    /\ (font.op \in {"load", "empty", "load_saved"} /\ font.status = "ok") =>
          LET glyphs == unwrap(font.fontdat).glyphs IN
          /\ Len(glyphs) = 91
          /\ \A c \in 1..Len(glyphs) :
                /\ glyphs[c].width = CHARACTER_WIDTHS[c]
                /\ glyphs[c].height = 13
                /\ Len(glyphs[c].data) = CHARACTER_WIDTHS[c] * 13
    /\ font.op = "empty" =>
          \A c \in 1..CHARACTERS :
              \A q \in 1..Len(unwrap(font.fontdat).glyphs[c].data) :
                  unwrap(font.fontdat).glyphs[c].data[q] = 0
    /\ (/\ font.op = "load"
        /\ font.content = "zeros"
        /\ font.missing = 0
        /\ <<font.width, font.height>> = <<223, 69>>) =>
          font.status = "ok" /\ font.fontdat = Some(Fontdat_empty)

\* The all-zero raster of 223 x 69 was loaded.
C26_Witness ==
    /\ font.op = "load"
    /\ font.content = "zeros"
    /\ font.missing = 0
    /\ <<font.width, font.height>> = <<223, 69>>
    /\ font.status = "ok"
    /\ Len(unwrap(font.fontdat).glyphs) = 91

\* C25: for every Fontdat f whose glyphs have the table's dimensions,
\* load(f.save()) = f; the raster in which the rect of character i is
\* filled with 100 + i decodes to glyphs filled with 100 + i; and for a
\* raster of 223 x 69 whose pixels outside the rects are 0,
\* save(load(raster)) gives back the raster's bytes.
C25_SaveAndLoadAreInverse ==
    /\ font.op = "load_saved" =>
          font.status = "ok" /\ font.fontdat = font.from.fontdat
    /\ (font.op = "load" /\ font.content = "dummy" /\ font.status = "ok") =>
          \A c \in 1..CHARACTERS :
              unwrap(font.fontdat).glyphs[c]
                  = filled_with_color(CHARACTER_WIDTHS[c], 13, 100 + c - 1)
    /\ (/\ font.op = "save"
        /\ font.from.op = "load"
        /\ <<font.from.width, font.from.height>> = <<223, 69>>
        /\ font.from.content \in {"dummy", "zeros", "glyph_noise"}) =>
          font.out = font.from.bytes

\* The font of a raster of 223 x 69 with no pixel 0 inside the rects was
\* saved and the bytes loaded again.
C25_Witness ==
    /\ font.op = "load_saved"
    /\ font.from.op = "load"
    /\ font.from.content = "glyph_noise"
    /\ <<font.from.width, font.from.height>> = <<223, 69>>
    /\ font.out = font.from.bytes
    /\ font.fontdat = font.from.fontdat

\* What save does to the pixels outside the rects: it leaves them 0,
\* whatever the raster the font was loaded from held there.
SaveClearsThePixelsOutsideTheRects ==
    (font.op = "save" /\ font.from.op = "load") =>
        \A q \in 1..(223 * 69) :
            character_at((q - 1) % 223, (q - 1) \div 223) = 0
                => font.out[HEADER_SIZE + q] = 0

----------------------------------------------------------------------------
(* The event loop, Intro and MainMenu (src/src/bin/openpol.rs).  A clip is *)
(* a FlicFile of the flic crate: it has a number of frames and a speed,    *)
(* and read_next_frame reports `ended` with its last frame.  What the      *)
(* behaviors draw is recorded as the kind of picture, not as pixels.       *)

\* The largest dt of an iteration, the most frames and the slowest speed
\* of a clip.
MaxTicks == 2

MaxFrames == 2

MaxSpeed == 2

\* Where Event::MouseMotion reports the pointer.
MouseMotions == {<<639, 399>>}

\* Intro::new
Intro_new ==
    [kind |-> "Intro", flic |-> None, chunk |-> None, since_last_render |-> 0,
     current_intro |-> 0]

\* A next that leaves the clip open.
Intro_next_keeping_flic(self) ==
    [self EXCEPT !.since_last_render = 0, !.chunk = None,
                 !.current_intro = (@ + 1) % U8_RANGE]

\* Intro::next; current_intro is a u8.
Intro_next(self) ==
    [self EXCEPT !.since_last_render = 0, !.flic = None, !.chunk = None,
                 !.current_intro = (@ + 1) % U8_RANGE]

\* MainMenu::new
MainMenu_new == [kind |-> "MainMenu", music_playing |-> FALSE]

\* What an update hands back to the loop: the behavior after it (the
\* replacement where update returned Some), and what it did.
Updated(behavior, switched, opened, ended, tracks, drawn) ==
    [behavior |-> behavior, switched |-> switched, opened |-> opened,
     ended |-> ended, tracks |-> tracks, drawn |-> drawn]

\* The loop `while self.since_last_render >= ms_per_frame` of Intro::update,
\* `self.flic` being open.
RECURSIVE read_frames(_, _)
read_frames(self, opened) ==
    LET flic == unwrap(self.flic) IN
    IF self.since_last_render >= flic.speed_msec
    THEN IF flic.frame + 1 >= flic.frames
         THEN Updated(Intro_next(self), FALSE, opened, TRUE, <<>>, "none")
         ELSE read_frames(
                  [self EXCEPT
                      !.flic = Some([flic EXCEPT !.frame = @ + 1]),
                      !.since_last_render = @ - flic.speed_msec],
                  opened)
    ELSE Updated(self, FALSE, opened, FALSE, <<>>, "flic")

\* Intro::update from `let ms_per_frame` on, `self.flic` being open.
play(self, ticks, opened) ==
    IF self.since_last_render + ticks >= unwrap(self.flic).speed_msec
    THEN read_frames([self EXCEPT !.since_last_render = @ + ticks], opened)
    ELSE Updated([self EXCEPT !.since_last_render = @ + ticks], FALSE,
                 opened, FALSE, <<>>, "none")

\* Intro::update from `let flic = match` on: the clip S00i.DAT is opened
\* if none is open and i <= 2, with the sound of I00i.DAT if that exists.
open_and_play(self, ticks, file) ==
    IF self.flic = None
    THEN IF self.current_intro \in 0..2
         THEN play([self EXCEPT
                       !.flic = Some([clip |-> self.current_intro,
                                      frame |-> 0, frames |-> file.frames,
                                      speed_msec |-> file.speed_msec]),
                       !.chunk = IF file.audio
                                 THEN Some(self.current_intro) ELSE None],
                   ticks, <<self.current_intro>>)
         ELSE Updated(MainMenu_new, TRUE, <<>>, FALSE, <<>>, "none")
    ELSE play(self, ticks, <<>>)

\* <Intro as Behavior>::update
Intro_update(self, button_pressed, ticks, file) ==
    open_and_play(IF button_pressed THEN Intro_next(self) ELSE self,
                  ticks, file)

\* <MainMenu as Behavior>::update: it returns None, so the loop keeps it.
MainMenu_update(self, button_pressed) ==
    Updated([self EXCEPT !.music_playing = TRUE], FALSE, <<>>, FALSE,
            IF ~self.music_playing THEN <<2>> ELSE <<>>, "menu")

\* behavior.update(...)
update(behavior, button_pressed, ticks, file) ==
    IF behavior.kind = "Intro"
    THEN Intro_update(behavior, button_pressed, ticks, file)
    ELSE MainMenu_update(behavior, button_pressed)

\* The clip files the data directory may hold.
ClipFiles ==
    [frames : 1..MaxFrames, speed_msec : 0..MaxSpeed, audio : BOOLEAN]

\* The clip files an update may read: it opens one only if no clip is
\* open once the key is handled.
files_read(behavior, button_pressed) ==
    IF behavior.kind = "Intro" /\ (button_pressed \/ behavior.flic = None)
    THEN ClipFiles
    ELSE {[frames |-> 1, speed_msec |-> 0, audio |-> FALSE]}

\* What is kept of the behavior an update started from.
started_from(behavior) ==
    IF behavior.kind = "Intro"
    THEN [kind |-> "Intro", current_intro |-> behavior.current_intro,
          open |-> behavior.flic # None]
    ELSE [kind |-> "MainMenu", music_playing |-> behavior.music_playing]

\* event_loop up to its `while`.
EventLoopStart ==
    /\ game.op = "init"
    /\ game' = [op |-> "start", running |-> TRUE, mouse_position |-> <<0, 0>>,
                behavior |-> Intro_new, tracks |-> <<>>, opened |-> <<>>,
                opened_now |-> <<>>,
                before |-> started_from(Intro_new),
                button_pressed |-> FALSE,
                switched |-> FALSE, ended |-> FALSE, drawn |-> "none"]
    /\ UNCHANGED <<img, other, buf, last, rgb, trip, pal, snd, font, graf>>

\* One iteration of the `while running` of event_loop: the events polled
\* (a quit, a key, a mouse motion, or none of each), the ticks since the
\* last iteration, and the update of the behavior.  `tracks` are the
\* tracks play_music_maybe was asked for so far, `opened` the clips opened
\* so far and `opened_now` the one this update opened.
EventLoopIteration ==
    /\ game.op \in {"start", "update"}
    /\ game.running
    /\ \E quit \in BOOLEAN, button_pressed \in BOOLEAN,
          motion \in MouseMotions \cup {<<>>}, dt \in 0..MaxTicks :
        \E file \in files_read(game.behavior, button_pressed) :
        LET r == update(game.behavior, button_pressed, dt, file) IN
        game' = [op |-> "update", running |-> ~quit,
                 mouse_position |->
                     IF motion = <<>> THEN game.mouse_position
                     ELSE <<motion[1] \div 2, motion[2] \div 2>>,
                 behavior |-> r.behavior,
                 tracks |-> game.tracks \o r.tracks,
                 opened |-> game.opened \o r.opened,
                 opened_now |-> r.opened,
                 before |-> started_from(game.behavior),
                 button_pressed |-> button_pressed,
                 switched |-> r.switched, ended |-> r.ended,
                 drawn |-> r.drawn]
    /\ UNCHANGED <<img, other, buf, last, rgb, trip, pal, snd, font, graf>>

NextGame ==
    \/ EventLoopStart
    \/ EventLoopIteration

SpecGame == Init /\ [][NextGame]_vars

\* C30: the loop starts in Intro with current_intro = 0; current_intro
\* never decreases and grows only by a key press or by the end of the
\* current clip; the clips S000, S001, S002 are opened only in increasing
\* order and only while current_intro is 0, 1, 2; the switch to MainMenu
\* is made exactly in the update in which no clip is open and
\* current_intro > 2 once the key is handled; after it no update replaces
\* MainMenu, and MainMenu asks for music track 2 once, on its first
\* update.
C30_IntroThenMainMenu ==
    /\ game.op = "start" =>
          /\ game.behavior.kind = "Intro"
          /\ game.behavior.current_intro = 0
          /\ game.behavior.flic = None
    /\ (game.op = "update" /\ game.before.kind = "Intro") =>
          LET at_match == game.before.current_intro
                              + (IF game.button_pressed THEN 1 ELSE 0)
              open_at_match == ~game.button_pressed /\ game.before.open
          IN  /\ game.behavior.kind = "Intro" =>
                    /\ game.behavior.current_intro
                           = at_match + (IF game.ended THEN 1 ELSE 0)
                    /\ game.behavior.current_intro
                           >= game.before.current_intro
                    /\ game.behavior.current_intro <= 3
              /\ game.switched <=> (~open_at_match /\ at_match > 2)
              /\ game.switched <=> game.behavior.kind = "MainMenu"
              /\ game.opened_now # <<>> =>
                    /\ ~open_at_match
                    /\ at_match \in 0..2
                    /\ game.opened_now = <<at_match>>
              /\ game.ended => open_at_match \/ game.opened_now # <<>>
    /\ (game.op = "update" /\ game.before.kind = "MainMenu") =>
          /\ game.behavior.kind = "MainMenu"
          /\ ~game.switched
          /\ game.opened_now = <<>>
          /\ game.tracks = <<2>>
    /\ game.op \in {"start", "update"} =>
          /\ \A i, j \in 1..Len(game.opened) :
                i < j => game.opened[i] < game.opened[j]
          /\ \A i \in 1..Len(game.opened) : game.opened[i] \in 0..2
          /\ game.tracks =
                IF game.behavior.kind = "MainMenu"
                       /\ game.behavior.music_playing
                THEN <<2>> ELSE <<>>

\* The three clips were opened, then MainMenu was updated a second time.
C30_Witness ==
    /\ game.op = "update"
    /\ game.opened = <<0, 1, 2>>
    /\ game.before.kind = "MainMenu"
    /\ game.before.music_playing
    /\ game.tracks = <<2>>

\* A key was pressed while S002 was open, and the same update made the
\* switch.
KeyDuringLastClipSwitches ==
    /\ game.op = "update"
    /\ game.before.kind = "Intro"
    /\ game.before.open
    /\ game.before.current_intro = 2
    /\ game.button_pressed
    /\ game.switched

====
